---- MODULE Spec2Model ----
(***************************************************************************)
(* f1-superfan: camera capture loop with a lock-guarded frame buffer       *)
(* (src/src/image_processor.py), the directory-draining inference worker   *)
(* (src/src/inference_worker.py), the application wiring with its periodic *)
(* capture loop (src/main.py, src/src/periodic_control.py) and the         *)
(* stand-alone server of src/src/server_old.py.                            *)
(***************************************************************************)
EXTENDS Integers, Sequences, FiniteSets, TLC

(***************************************************************************)
(* Bounds of the model.                                                    *)
(***************************************************************************)
\* successful captures that produce a fresh frame content
MaxCaptures == 2
\* consecutive failed capture attempts that are counted
MaxFails == 2
\* files a producer may drop into the input directory after construction
MaxDrops == 1

\* a frame is FrameCells pixels; a copy visits them one after the other
FrameCells == 2

CapThreads == {"c1", "c2"}
Readers == {"r1", "r2"}
MonThreads == {"m1"}
\* the thread of F1SuperfanApp._periodic_capture_loop
PeriodicThread == "periodic"
\* every thread that calls ImageProcessor.get_current_frame
FrameCallers == Readers \cup {PeriodicThread}
\* server_old.py: its capture thread and the clients of /video_feed
OldCapThread == "capture_frames"
Viewers == {"v1", "v2"}

NoThread == "none"
NoHolder == "free"
\* the value None of current_frame / of a captured frame
NoFrame == 0

Cells == 1..FrameCells
Contents == 1..MaxCaptures
\* the pixel buffer of a frame captured as content n
FullFrame(n) == [i \in Cells |-> n]
Blank == [i \in Cells |-> 0]

VARIABLES
    \* ---- ImageProcessor (src/src/image_processor.py)
    ip_running,       \* self.running
    initialized,      \* self._initialized
    probe_result,     \* what the probe capture of the last start() returned
    capture_thread,   \* self.capture_thread: the last thread created, or NoThread
    lock,             \* self.lock: its holder, or NoHolder
    current_frame,    \* self.current_frame: NoFrame, or the buffer it references
    heap,             \* the pixel buffers, by buffer identity
    nCaptures,        \* successful captures so far (gives each frame its content)
    cpc,              \* position of each capture-loop thread
    cframe,           \* local `frame` of each capture-loop thread
    fails,            \* consecutive failed attempts of each capture-loop thread
    rpc,              \* position of each get_current_frame caller
    rref,             \* the buffer the caller read from self.current_frame
    rbuf,             \* the copy under construction
    rret,             \* the value last returned to the caller
    \* ---- InferenceWorker (src/src/inference_worker.py)
    iw_running,       \* self.running
    worker_thread,    \* self.worker_thread
    database_handler, \* self.database_handler is not None
    processed_files,  \* self.processed_files
    input_dir,        \* names in the input directory
    processed_dir,    \* names in the processed directory
    failed_dir,       \* names in the failed directory
    error_logs,       \* the newest error record written by _log_error
    mpc,              \* position of each monitor-loop thread
    listing,          \* input_files still to visit in the current sweep
    cur,              \* filename of the current iteration
    kprompt,          \* index of the prompt being run by _process_image
    extractions,      \* extraction_results["extractions"]: types filled so far
    cause,            \* why _process_image returns None for the current file
    logged,           \* what _log_error did for the current file
    saved,            \* what save_extraction_results did for the current file
    moved,            \* what _move_file did for the current file
    invoked,          \* filenames _process_image was invoked for
    save_called,      \* filenames save_extraction_results was invoked for
    drops,            \* files dropped by producers so far
    \* ---- F1SuperfanApp (src/main.py)
    app_pc,           \* position of F1SuperfanApp.run / shutdown
    server,           \* self.server is not None
    periodic_capture_thread, \* self.periodic_capture_thread is not None
    app_running,      \* F1SuperfanApp.running
    capture_mode,     \* capture.mode of the configuration
    interval_ok,      \* capture.interval_seconds is a number time.sleep accepts
    periodic_enabled, \* periodic_control.periodic_enabled is set
    ppc,              \* position of the periodic capture loop thread
    now,              \* the clock second, as an index into PeriodicNames
    output_path,      \* local `filename` of the current tick
    success,          \* what capture_single_frame returned for the last tick
    \* ---- server_old.py
    camera_initialized, \* global camera_initialized
    frame_lock,       \* global frame_lock: its holder, or NoHolder
    old_current_frame, \* global current_frame: NoFrame or a content
    old_captures,     \* frames capture_single_frame has produced
    ocpc,             \* position of the capture_frames thread
    ocframe,          \* local `frame` of capture_frames
    vpc,              \* position of each generate() of /video_feed
    \* ---- objects handed out by the components
    ralias,           \* the held buffer a returned frame shares its storage with
    stop_pc,          \* position of the controlling thread inside a stop call
    llm_provider,     \* self.llm_provider
    call_log,         \* the calls of _call_llm made so far, with what they returned
    prompt_input,     \* an extraction type and the response text _call_llm gave for it
    prompt_result,    \* what the loop body of _process_image made of it
    validate_input,   \* the arguments of a call of validate_json_structure
    validate_result,  \* the pair (is_valid, error_msg) it returned
    \* ---- InferenceWorker instances over one set of directories
    instance,         \* how many InferenceWorker objects were constructed
    prev_claimed,     \* names earlier instances held in processed_files
    \* ---- the error logs of _log_error in the failed directory
    log_now,          \* datetime.now(), in ticks
    log_files,        \* the error_*.json files, each a name and a content
    log_history,      \* the records _log_error has written, oldest first
    \* ---- one backend method called on its own
    backend_input,    \* the backend and what its request meets
    backend_result,   \* what the backend method handed to its caller
    \* ---- the /manual_capture route (src/src/server.py)
    storage_manual,   \* capture.storage_paths.manual of the configuration
    manual_dir,       \* names in that directory when it is not the input directory
    manual_now,       \* the clock second of the last request
    manual_log,       \* the responses of the requests made so far
    \* ---- InferenceWorker.stop during a sweep
    stop_listing,     \* the names the sweep had still to visit when stop cleared the flag
    \* ---- files in the input directory while cv2.imwrite is writing them
    partial           \* names in the input directory whose content is not complete

ipVars == <<ip_running, initialized, probe_result, capture_thread, lock, current_frame, heap,
            nCaptures, cpc, cframe, fails>>
readerVars == <<rpc, rref, rbuf, rret>>
iwVars == <<iw_running, worker_thread, database_handler, processed_files,
            input_dir, processed_dir, failed_dir, error_logs, mpc, listing, cur,
            kprompt, extractions, cause, logged, saved, moved, invoked,
            save_called, drops>>
\* groups of the worker's variables
workerVars == <<iw_running, worker_thread, database_handler>>
dirVars == <<input_dir, processed_dir, failed_dir>>
sweepVars == <<listing, cur>>
fileVars == <<kprompt, extractions, cause, logged, saved, moved>>
perVars == <<app_running, capture_mode, interval_ok, periodic_enabled, ppc, now,
             output_path, success>>
oldVars == <<camera_initialized, frame_lock, old_current_frame, old_captures, ocpc,
             ocframe, vpc>>
\* state of the callers of the components
\* inputs and results of the worker's methods when called on their own
callVars == <<llm_provider, call_log, prompt_input, prompt_result, validate_input,
              validate_result>>
instVars == <<instance, prev_claimed>>
logVars == <<log_now, log_files, log_history>>
backendVars == <<backend_input, backend_result>>
manualVars == <<storage_manual, manual_dir, manual_now, manual_log>>
stopVars == <<stop_listing>>
writeVars == <<partial>>
lateVars == <<backendVars, manualVars, stopVars, writeVars>>
extVars == <<ralias, stop_pc, callVars, instVars, logVars, lateVars>>
appVars == <<app_pc, server, periodic_capture_thread, perVars, oldVars, extVars>>
vars == <<ipVars, readerVars, iwVars, appVars>>

----------------------------------------------------------------------------
(***************************************************************************)
(* ImageProcessor                                                          *)
(***************************************************************************)

\* ImageProcessor.__init__
InitImageProcessor ==
    /\ ip_running = FALSE
    /\ initialized = FALSE
    /\ probe_result = "-"
    /\ capture_thread = NoThread
    /\ lock = NoHolder
    /\ current_frame = NoFrame
    /\ heap = [b \in Contents |-> Blank]
    /\ nCaptures = 0
    /\ cpc = [t \in CapThreads |-> "unborn"]
    /\ cframe = [t \in CapThreads |-> NoFrame]
    /\ fails = [t \in CapThreads |-> 0]

\* a caller of Readers is about to call get_current_frame; the periodic
\* thread is outside capture_single_frame
InitReaders ==
    /\ rpc = [r \in FrameCallers |-> IF r \in Readers THEN "idle" ELSE "parked"]
    /\ rref = [r \in FrameCallers |-> NoFrame]
    /\ rbuf = [r \in FrameCallers |-> Blank]
    /\ rret = [r \in FrameCallers |-> Blank]

\* the array get_current_frame returns is a new object (`.copy()`) that shares
\* its storage with no held buffer; no stop call is under way; the first
\* InferenceWorker object has been constructed and not started
InitHandles ==
    /\ ralias = [r \in FrameCallers |-> NoFrame]
    /\ stop_pc = "idle"
    /\ instance = 1
    /\ prev_claimed = {}
    /\ log_now = 0
    /\ log_files = {}
    /\ log_history = <<>>

\* InferenceWorker.__init__, line 35: the default provider; no call made yet
InitDispatcher ==
    /\ llm_provider = "ollama"
    /\ call_log = <<>>

\* no response text has been handed to the loop body of _process_image
NoPrompt == [extraction_type |-> "-", response_text |-> "-"]
NotRun == [outcome |-> "-", data |-> "-"]
InitPrompt ==
    /\ prompt_input = NoPrompt
    /\ prompt_result = NotRun

\* validate_json_structure has not been called
NoArguments == [data |-> [kind |-> "-", keys |-> {}], required_keys |-> <<>>]
NotReturned == [is_valid |-> FALSE, error_msg |-> [text |-> "-", keys |-> <<>>]]
InitValidate ==
    /\ validate_input = NoArguments
    /\ validate_result = NotReturned

\* no backend method has been called on its own
NoRequest == [backend |-> "-", end |-> "-", chunks |-> <<>>]
NotCalled == [called |-> FALSE, raised |-> FALSE, is_none |-> FALSE, text |-> <<>>]
InitBackend ==
    /\ backend_input = NoRequest
    /\ backend_result = NotCalled

\* the paths the configuration may give for a storage directory; the worker
\* watches capture.storage_paths.input, 'data/input' by default
InputPath == "data/input"
StoragePaths == {"data/input", "data/manual"}

\* server.py line 50: capture.storage_paths.manual is 'data/manual' by
\* default; no request has been made
InitManualCapture ==
    /\ storage_manual = "data/manual"
    /\ manual_dir = {}
    /\ manual_now = 1
    /\ manual_log = <<>>

\* InferenceWorker.stop has not been called
InitStop == stop_listing = {}

\* no file is being written
InitWrite == partial = {}

InitLate == InitBackend /\ InitManualCapture /\ InitStop /\ InitWrite

\* the callers of the components before they call anything
InitCallers ==
    /\ InitHandles
    /\ InitDispatcher
    /\ InitPrompt
    /\ InitValidate
    /\ InitLate

\* _capture_single_frame_subprocess: a frame, or None on every failure
\* (non-zero exit, missing file, wrong size, timeout, any exception)
CaptureOutcomes == {"frame", "none"}

\* start() with running set before the probe and a thread created whatever
\* the probe returns
StartImageProcessorEager(probe) ==
    IF ip_running
    THEN UNCHANGED ipVars
    ELSE /\ \E t \in CapThreads : cpc[t] = "unborn"
         /\ LET t == CHOOSE u \in CapThreads : cpc[u] = "unborn" IN
            /\ probe_result' = probe
            /\ initialized' = (probe = "frame")
            /\ ip_running' = TRUE
            /\ capture_thread' = t
            /\ cpc' = [cpc EXCEPT ![t] = "check"]
            /\ UNCHANGED <<lock, current_frame, heap, nCaptures, cframe, fails>>

\* start() storing the frame of its probe capture as the current frame
StartImageProcessorPublishing(probe) ==
    IF ip_running
    THEN UNCHANGED ipVars
    ELSE /\ probe_result' = probe
         /\ IF probe = "frame"
            THEN /\ \E t \in CapThreads : cpc[t] = "unborn"
                 /\ nCaptures < MaxCaptures
                 /\ LET t == CHOOSE u \in CapThreads : cpc[u] = "unborn"
                        n == nCaptures + 1 IN
                    /\ initialized' = TRUE
                    /\ ip_running' = TRUE
                    /\ capture_thread' = t
                    /\ cpc' = [cpc EXCEPT ![t] = "check"]
                    /\ nCaptures' = n
                    /\ heap' = [heap EXCEPT ![n] = FullFrame(n)]
                    /\ current_frame' = n
                    /\ UNCHANGED <<lock, cframe, fails>>
            ELSE /\ initialized' = FALSE
                 /\ UNCHANGED <<ip_running, capture_thread, lock, current_frame,
                                heap, nCaptures, cpc, cframe, fails>>

\* ImageProcessor.start with the given outcome of the probe capture
StartImageProcessor(probe) ==
    IF ip_running
    THEN UNCHANGED ipVars
    ELSE /\ probe_result' = probe
         /\ IF probe = "frame"
            THEN /\ \E t \in CapThreads : cpc[t] = "unborn"
                 /\ LET t == CHOOSE u \in CapThreads : cpc[u] = "unborn" IN
                    /\ initialized' = TRUE
                    /\ ip_running' = TRUE
                    /\ capture_thread' = t
                    /\ cpc' = [cpc EXCEPT ![t] = "check"]
                    /\ UNCHANGED <<lock, current_frame, heap, nCaptures, cframe, fails>>
            ELSE /\ initialized' = FALSE
                 /\ UNCHANGED <<ip_running, capture_thread, lock, current_frame,
                                heap, nCaptures, cpc, cframe, fails>>

\* ImageProcessor.stop: clears the flag; the join returns after at most 2 s
StopImageProcessor ==
    /\ ip_running' = FALSE
    /\ UNCHANGED <<initialized, probe_result, capture_thread, lock, current_frame, heap,
                   nCaptures, cpc, cframe, fails>>

\* a loop test that does not read the running flag
CapCheckForever(t) ==
    /\ cpc[t] = "check"
    /\ cpc' = [cpc EXCEPT ![t] = "capture"]
    /\ UNCHANGED <<ip_running, initialized, probe_result, capture_thread, lock, current_frame,
                   heap, nCaptures, cframe, fails>>
    /\ UNCHANGED <<readerVars, iwVars, appVars>>

\* `while self.running:`
CapCheck(t) ==
    /\ cpc[t] = "check"
    /\ cpc' = [cpc EXCEPT ![t] = IF ip_running THEN "capture" ELSE "done"]
    /\ UNCHANGED <<ip_running, initialized, probe_result, capture_thread, lock, current_frame,
                   heap, nCaptures, cframe, fails>>
    /\ UNCHANGED <<readerVars, iwVars, appVars>>

\* the capture step of a loop that gives up after MaxFails failed attempts
CapCaptureGiveUp(t) ==
    /\ cpc[t] = "capture"
    /\ \E o \in CaptureOutcomes :
         \/ /\ o = "frame"
            /\ nCaptures < MaxCaptures
            /\ nCaptures' = nCaptures + 1
            /\ cframe' = [cframe EXCEPT ![t] = nCaptures + 1]
            /\ fails' = [fails EXCEPT ![t] = 0]
            /\ cpc' = [cpc EXCEPT ![t] = "acquire"]
         \/ /\ o = "none"
            /\ fails' = [fails EXCEPT ![t] = IF fails[t] < MaxFails THEN fails[t] + 1 ELSE MaxFails]
            /\ cframe' = [cframe EXCEPT ![t] = NoFrame]
            /\ cpc' = [cpc EXCEPT ![t] = IF fails[t] + 1 >= MaxFails THEN "done" ELSE "backoff"]
            /\ UNCHANGED nCaptures
    /\ UNCHANGED <<ip_running, initialized, probe_result, capture_thread, lock, current_frame, heap>>
    /\ UNCHANGED <<readerVars, iwVars, appVars>>

\* `frame = self._capture_single_frame_subprocess()`
CapCapture(t) ==
    /\ cpc[t] = "capture"
    /\ \E o \in CaptureOutcomes :
         \/ /\ o = "frame"
            /\ nCaptures < MaxCaptures
            /\ nCaptures' = nCaptures + 1
            /\ cframe' = [cframe EXCEPT ![t] = nCaptures + 1]
            /\ fails' = [fails EXCEPT ![t] = 0]
            /\ cpc' = [cpc EXCEPT ![t] = "acquire"]
         \/ /\ o = "none"
            /\ fails' = [fails EXCEPT ![t] = IF fails[t] < MaxFails THEN fails[t] + 1 ELSE MaxFails]
            /\ cframe' = [cframe EXCEPT ![t] = NoFrame]
            /\ cpc' = [cpc EXCEPT ![t] = "backoff"]
            /\ UNCHANGED nCaptures
    /\ UNCHANGED <<ip_running, initialized, probe_result, capture_thread, lock, current_frame, heap>>
    /\ UNCHANGED <<readerVars, iwVars, appVars>>

\* `with self.lock:` entered by the capture loop
CapAcquire(t) ==
    /\ cpc[t] = "acquire"
    /\ lock = NoHolder
    /\ lock' = t
    /\ cpc' = [cpc EXCEPT ![t] = "store"]
    /\ UNCHANGED <<ip_running, initialized, probe_result, capture_thread, current_frame, heap,
                   nCaptures, cframe, fails>>
    /\ UNCHANGED <<readerVars, iwVars, appVars>>

\* `self.current_frame = frame.copy()`: a new buffer, then the attribute is bound
CapStore(t) ==
    /\ cpc[t] = "store"
    /\ lock = t
    /\ heap' = [heap EXCEPT ![cframe[t]] = FullFrame(cframe[t])]
    /\ current_frame' = cframe[t]
    /\ cpc' = [cpc EXCEPT ![t] = "release"]
    /\ UNCHANGED <<ip_running, initialized, probe_result, capture_thread, lock, nCaptures,
                   cframe, fails>>
    /\ UNCHANGED <<readerVars, iwVars, appVars>>

\* leaving the `with` block
CapRelease(t) ==
    /\ cpc[t] = "release"
    /\ lock = t
    /\ lock' = NoHolder
    /\ cpc' = [cpc EXCEPT ![t] = "sleep"]
    /\ UNCHANGED <<ip_running, initialized, probe_result, capture_thread, current_frame, heap,
                   nCaptures, cframe, fails>>
    /\ UNCHANGED <<readerVars, iwVars, appVars>>

\* the first cell of buffer b that does not hold content n yet
NextCell(b, n) == CHOOSE i \in Cells : b[i] # n /\ \A j \in 1..(i - 1) : b[j] = n

\* the in-place variant of the publish: the held buffer is overwritten cell
\* by cell and the lock is not taken
CapPublishInPlace(t) ==
    /\ cpc[t] \in {"acquire", "store"}
    /\ IF current_frame = NoFrame
       THEN /\ heap' = [heap EXCEPT ![cframe[t]] = FullFrame(cframe[t])]
            /\ current_frame' = cframe[t]
            /\ cpc' = [cpc EXCEPT ![t] = "sleep"]
       ELSE LET i == NextCell(heap[current_frame], cframe[t]) IN
            /\ heap' = [heap EXCEPT ![current_frame][i] = cframe[t]]
            /\ cpc' = [cpc EXCEPT ![t] = IF i = FrameCells THEN "sleep" ELSE "store"]
            /\ UNCHANGED current_frame
    /\ UNCHANGED <<ip_running, initialized, probe_result, capture_thread, lock, nCaptures,
                   cframe, fails>>
    /\ UNCHANGED <<readerVars, iwVars, appVars>>

\* the publish of _capture_loop: lines 113-114
CapPublish(t) ==
    \/ CapAcquire(t)
    \/ CapStore(t)
    \/ CapRelease(t)

\* `time.sleep(1.0 / self.fps)`, or the handler of an exception raised in the
\* body (`time.sleep(1)`), or the back-off after a failed capture
CapSleep(t) ==
    /\ cpc[t] \in {"sleep", "backoff"}
    /\ cpc' = [cpc EXCEPT ![t] = "check"]
    /\ UNCHANGED <<ip_running, initialized, probe_result, capture_thread, lock, current_frame,
                   heap, nCaptures, cframe, fails>>
    /\ UNCHANGED <<readerVars, iwVars, appVars>>

\* one step of the capture loop thread t
CaptureLoop(t) ==
    \/ CapCheck(t)
    \/ CapCapture(t)
    \/ CapPublish(t)
    \/ CapSleep(t)

\* get_current_frame: `with self.lock:`
ReadAcquire(r) ==
    /\ rpc[r] = "idle"
    /\ lock = NoHolder
    /\ lock' = r
    /\ rpc' = [rpc EXCEPT ![r] = "read"]
    /\ UNCHANGED <<rref, rbuf, rret>>
    /\ UNCHANGED <<ip_running, initialized, probe_result, capture_thread, current_frame, heap,
                   nCaptures, cpc, cframe, fails>>
    /\ UNCHANGED <<iwVars, appVars>>

\* get_current_frame: `self.current_frame` is evaluated once
ReadRef(r) ==
    /\ rpc[r] = "read"
    /\ lock = r
    /\ rref' = [rref EXCEPT ![r] = current_frame]
    /\ rbuf' = [rbuf EXCEPT ![r] = Blank]
    /\ rpc' = [rpc EXCEPT ![r] = IF current_frame = NoFrame THEN "release" ELSE "copy"]
    /\ UNCHANGED rret
    /\ UNCHANGED ipVars
    /\ UNCHANGED <<iwVars, appVars>>

\* the first cell of the copy b that is not filled yet
FirstBlank(b) == CHOOSE i \in Cells : b[i] = 0 /\ \A j \in 1..(i - 1) : b[j] # 0

\* get_current_frame: `.copy()` copies the referenced buffer cell by cell
ReadCopy(r) ==
    /\ rpc[r] = "copy"
    /\ lock = r
    /\ LET i == FirstBlank(rbuf[r]) IN
       /\ rbuf' = [rbuf EXCEPT ![r][i] = heap[rref[r]][i]]
       /\ rpc' = [rpc EXCEPT ![r] = IF i = FrameCells THEN "release" ELSE "copy"]
    /\ UNCHANGED <<rref, rret>>
    /\ UNCHANGED ipVars
    /\ UNCHANGED <<iwVars, appVars>>

\* get_current_frame returning `self.current_frame` itself
ReadReturnShared(r) ==
    /\ rpc[r] = "release"
    /\ lock = r
    /\ lock' = NoHolder
    /\ rret' = [rret EXCEPT ![r] = rbuf[r]]
    /\ ralias' = [ralias EXCEPT ![r] = rref[r]]
    /\ rpc' = [rpc EXCEPT ![r] = IF r \in Readers THEN "idle" ELSE "returned"]
    /\ UNCHANGED <<rref, rbuf>>
    /\ UNCHANGED <<ip_running, initialized, probe_result, capture_thread, current_frame, heap,
                   nCaptures, cpc, cframe, fails>>
    /\ UNCHANGED <<iwVars, app_pc, server, periodic_capture_thread, perVars, oldVars, stop_pc,
                   callVars, instVars, logVars, lateVars>>

\* get_current_frame: the `with` block is left and the copy (or None) returned
ReadReturn(r) ==
    /\ rpc[r] = "release"
    /\ lock = r
    /\ lock' = NoHolder
    /\ rret' = [rret EXCEPT ![r] = rbuf[r]]
    /\ rpc' = [rpc EXCEPT ![r] = IF r \in Readers THEN "idle" ELSE "returned"]
    /\ UNCHANGED <<rref, rbuf>>
    /\ UNCHANGED <<ip_running, initialized, probe_result, capture_thread, current_frame, heap,
                   nCaptures, cpc, cframe, fails>>
    /\ UNCHANGED <<iwVars, appVars>>

\* one step of a get_current_frame call by caller r
GetCurrentFrame(r) ==
    \/ ReadAcquire(r)
    \/ ReadRef(r)
    \/ ReadCopy(r)
    \/ ReadReturn(r)

----------------------------------------------------------------------------
(***************************************************************************)
(* InferenceWorker                                                         *)
(***************************************************************************)

ImageFiles == {"a.jpg", "B.PNG"}
OtherFiles == {"notes.txt"}
\* f"periodic_{timestamp}.jpg" for the seconds of the clock, in order
PeriodicNames == <<"periodic_0001.jpg", "periodic_0002.jpg">>
PeriodicFiles == {PeriodicNames[i] : i \in 1..Len(PeriodicNames)}
\* f"manual_{timestamp}.jpg" for the seconds of the clock, in order
ManualNames == <<"manual_0001.jpg", "manual_0002.jpg">>
ManualFiles == {ManualNames[i] : i \in 1..Len(ManualNames)}
Files == ImageFiles \cup OtherFiles \cup PeriodicFiles \cup ManualFiles
NoFile == "-"
NoRecord == [image_filename |-> NoFile, error_type |-> "-", why |-> "-"]

\* `f.lower().endswith(('.png', '.jpg', '.jpeg'))`
Suffix == [f \in Files |-> CASE f = "a.jpg" -> ".jpg"
                             [] f = "B.PNG" -> ".PNG"
                             [] f \in PeriodicFiles -> ".jpg"
                             [] f \in ManualFiles -> ".jpg"
                             [] OTHER -> ".txt"]
Lower(x) == CASE x = ".PNG" -> ".png"
              [] x = ".JPG" -> ".jpg"
              [] x = ".JPEG" -> ".jpeg"
              [] OTHER -> x
IsImage(f) == Lower(Suffix[f]) \in {".png", ".jpg", ".jpeg"}

\* llm.prompts: extraction types in the iteration order of the mapping
Prompts == <<"current_lap", "timing_table", "tire_info">>
PromptTypes == {Prompts[i] : i \in 1..Len(Prompts)}

\* _get_required_keys
RequiredKeys(extraction_type) ==
    CASE extraction_type = "current_lap" -> {"lap_number"}
      [] extraction_type = "timing_table" -> {"timing_table"}
      [] extraction_type = "tire_info" -> {}
      [] OTHER -> {}

\* parsed JSON values: an object (by its key set) or a value that is no object
Keys == {"lap_number", "timing_table"}
JsonValues == [kind : {"dict"}, keys : SUBSET Keys] \cup {[kind |-> "list", keys |-> {}]}

\* validate_json_structure: (is_valid, missing keys)
ValidateJsonStructure(data, required_keys) ==
    IF data.kind # "dict"
    THEN [ok |-> FALSE, missing |-> {}]
    ELSE [ok |-> (required_keys \ data.keys) = {}, missing |-> required_keys \ data.keys]

\* what _call_llm hands back: None (with the reason the backend call failed),
\* or the response, which is JSON text, other text, or no string at all
DispatchFailures == {"timeout", "request_error", "empty_response", "malformed_reply"}
Responses ==
    [tag : {"none"}, why : DispatchFailures, value : {[kind |-> "list", keys |-> {}]}]
    \cup [tag : {"text", "non_string"}, why : {"-"}, value : {[kind |-> "list", keys |-> {}]}]
    \cup [tag : {"json"}, why : {"-"}, value : JsonValues]

\* the outcome of one prompt of _process_image for a response of _call_llm:
\* "raise" (an exception json.JSONDecodeError does not cover), a failure
\* (return None) with its reason, or "ok"
PromptOutcome(extraction_type, resp) ==
    CASE resp.tag = "none" -> resp.why
      [] resp.tag = "non_string" -> "raise"
      [] resp.tag = "text" -> "json_decode"
      [] OTHER ->
           IF RequiredKeys(extraction_type) # {}
              /\ ~ValidateJsonStructure(resp.value, RequiredKeys(extraction_type)).ok
           THEN "validation"
           ELSE "ok"

\* the orders in which os.listdir may return the names of S
Perms(S) == {q \in [1..Cardinality(S) -> S] : \A i, j \in 1..Cardinality(S) : q[i] = q[j] => i = j}

\* InferenceWorker.__init__ (the directories and the handler are its inputs),
\* with the identities T for the threads its start calls may create
InitInferenceWorkerOver(T) ==
    /\ iw_running = FALSE
    /\ worker_thread = NoThread
    /\ processed_files = {}
    /\ processed_dir = {}
    /\ failed_dir = {}
    /\ error_logs = NoRecord
    /\ mpc = [m \in T |-> "unborn"]
    /\ listing = [m \in T |-> <<>>]
    /\ cur = [m \in T |-> NoFile]
    /\ kprompt = [m \in T |-> 0]
    /\ extractions = [m \in T |-> {}]
    /\ cause = [m \in T |-> "none"]
    /\ logged = [m \in T |-> "no"]
    /\ saved = [m \in T |-> "no"]
    /\ moved = [m \in T |-> "no"]
    /\ invoked = {}
    /\ save_called = {}
    /\ drops = 0

InitInferenceWorker == InitInferenceWorkerOver(MonThreads)

\* InferenceWorker.start
StartWorker ==
    IF iw_running
    THEN UNCHANGED iwVars
    ELSE /\ \E m \in DOMAIN mpc : mpc[m] = "unborn"
         /\ LET m == CHOOSE u \in DOMAIN mpc : mpc[u] = "unborn" IN
            /\ iw_running' = TRUE
            /\ worker_thread' = m
            /\ mpc' = [mpc EXCEPT ![m] = "check"]
         /\ UNCHANGED <<database_handler, processed_files, dirVars, error_logs,
                        sweepVars, fileVars, invoked, save_called, drops>>

\* InferenceWorker.stop: clears the flag; the join returns after at most 5 s
StopWorker ==
    IF ~iw_running
    THEN UNCHANGED iwVars
    ELSE /\ iw_running' = FALSE
         /\ UNCHANGED <<worker_thread, database_handler, processed_files, dirVars,
                        error_logs, mpc, sweepVars, fileVars, invoked,
                        save_called, drops>>

\* a producer (periodic tick, manual capture, an operator) puts an image file
\* into the input directory
Drop(f) ==
    /\ drops < MaxDrops
    /\ f \in ImageFiles
    /\ f \notin input_dir
    /\ input_dir' = input_dir \cup {f}
    /\ drops' = drops + 1
    /\ UNCHANGED <<processed_dir, failed_dir, error_logs, processed_files, mpc,
                   sweepVars, fileVars, invoked, save_called, workerVars>>
    /\ UNCHANGED <<ipVars, readerVars, appVars>>

\* `while self.running:`
MonCheck(m) ==
    /\ mpc[m] = "check"
    /\ mpc' = [mpc EXCEPT ![m] = IF iw_running THEN "list" ELSE "done"]
    /\ UNCHANGED <<dirVars, error_logs, processed_files, sweepVars, fileVars,
                   invoked, save_called, drops, workerVars>>
    /\ UNCHANGED <<ipVars, readerVars, appVars>>

\* `input_files = [f for f in os.listdir(self.input_dir) if ...]`; os.listdir
\* may raise, which the sweep-level handler catches
MonList(m) ==
    /\ mpc[m] = "list"
    /\ \/ \E q \in Perms({f \in input_dir : IsImage(f)}) :
            /\ listing' = [listing EXCEPT ![m] = q]
            /\ mpc' = [mpc EXCEPT ![m] = "iter"]
       \/ /\ mpc' = [mpc EXCEPT ![m] = "backoff"]
          /\ UNCHANGED listing
    /\ UNCHANGED <<dirVars, error_logs, processed_files, cur, fileVars, invoked,
                   save_called, drops, workerVars>>
    /\ UNCHANGED <<ipVars, readerVars, appVars>>

\* the iteration of a worker that takes the frame lock of the image
\* processor for the time it processes a file
MonIterLocked(m) ==
    /\ mpc[m] = "iter"
    /\ IF listing[m] = <<>>
       THEN /\ mpc' = [mpc EXCEPT ![m] = "sleep"]
            /\ UNCHANGED <<listing, cur, fileVars, invoked, lock>>
       ELSE LET filename == Head(listing[m]) IN
            /\ listing' = [listing EXCEPT ![m] = Tail(listing[m])]
            /\ cur' = [cur EXCEPT ![m] = filename]
            /\ cause' = [cause EXCEPT ![m] = "none"]
            /\ logged' = [logged EXCEPT ![m] = "no"]
            /\ saved' = [saved EXCEPT ![m] = "no"]
            /\ moved' = [moved EXCEPT ![m] = "no"]
            /\ extractions' = [extractions EXCEPT ![m] = {}]
            /\ IF filename \in processed_files
               THEN /\ mpc' = [mpc EXCEPT ![m] = "iter"]
                    /\ kprompt' = [kprompt EXCEPT ![m] = 0]
                    /\ UNCHANGED <<invoked, lock>>
               ELSE /\ lock = NoHolder
                    /\ lock' = m
                    /\ mpc' = [mpc EXCEPT ![m] = IF Len(Prompts) = 0 THEN "claim" ELSE "call"]
                    /\ kprompt' = [kprompt EXCEPT ![m] = 1]
                    /\ invoked' = invoked \cup {filename}
    /\ UNCHANGED <<dirVars, error_logs, processed_files, save_called, drops,
                   workerVars>>
    /\ UNCHANGED <<ip_running, initialized, probe_result, capture_thread, current_frame,
                   heap, nCaptures, cpc, cframe, fails>>
    /\ UNCHANGED <<readerVars, appVars>>

\* a `for` loop that tests self.running before each file and ends the thread
\* when the flag is clear
MonIterFlagged(m) ==
    /\ mpc[m] = "iter"
    /\ IF listing[m] = <<>>
       THEN /\ mpc' = [mpc EXCEPT ![m] = "sleep"]
            /\ UNCHANGED <<listing, cur, fileVars, invoked>>
       ELSE IF ~iw_running
       THEN /\ mpc' = [mpc EXCEPT ![m] = "done"]
            /\ UNCHANGED <<listing, cur, fileVars, invoked>>
       ELSE LET filename == Head(listing[m]) IN
            /\ listing' = [listing EXCEPT ![m] = Tail(listing[m])]
            /\ cur' = [cur EXCEPT ![m] = filename]
            /\ cause' = [cause EXCEPT ![m] = "none"]
            /\ logged' = [logged EXCEPT ![m] = "no"]
            /\ saved' = [saved EXCEPT ![m] = "no"]
            /\ moved' = [moved EXCEPT ![m] = "no"]
            /\ extractions' = [extractions EXCEPT ![m] = {}]
            /\ IF filename \in processed_files
               THEN /\ mpc' = [mpc EXCEPT ![m] = "iter"]
                    /\ kprompt' = [kprompt EXCEPT ![m] = 0]
                    /\ UNCHANGED invoked
               ELSE /\ mpc' = [mpc EXCEPT ![m] = IF Len(Prompts) = 0 THEN "claim" ELSE "call"]
                    /\ kprompt' = [kprompt EXCEPT ![m] = 1]
                    /\ invoked' = invoked \cup {filename}
    /\ UNCHANGED <<dirVars, error_logs, processed_files, save_called, drops,
                   workerVars>>
    /\ UNCHANGED <<ipVars, readerVars, appVars>>

\* `for filename in input_files:` with the skip of claimed names; for a new
\* name _process_image is entered
MonIter(m) ==
    /\ mpc[m] = "iter"
    /\ IF listing[m] = <<>>
       THEN /\ mpc' = [mpc EXCEPT ![m] = "sleep"]
            /\ UNCHANGED <<listing, cur, fileVars, invoked>>
       ELSE LET filename == Head(listing[m]) IN
            /\ listing' = [listing EXCEPT ![m] = Tail(listing[m])]
            /\ cur' = [cur EXCEPT ![m] = filename]
            /\ cause' = [cause EXCEPT ![m] = "none"]
            /\ logged' = [logged EXCEPT ![m] = "no"]
            /\ saved' = [saved EXCEPT ![m] = "no"]
            /\ moved' = [moved EXCEPT ![m] = "no"]
            /\ extractions' = [extractions EXCEPT ![m] = {}]
            /\ IF filename \in processed_files
               THEN /\ mpc' = [mpc EXCEPT ![m] = "iter"]
                    /\ kprompt' = [kprompt EXCEPT ![m] = 0]
                    /\ UNCHANGED invoked
               ELSE /\ mpc' = [mpc EXCEPT ![m] = IF Len(Prompts) = 0 THEN "claim" ELSE "call"]
                    /\ kprompt' = [kprompt EXCEPT ![m] = 1]
                    /\ invoked' = invoked \cup {filename}
    /\ UNCHANGED <<dirVars, error_logs, processed_files, save_called, drops,
                   workerVars>>
    /\ UNCHANGED <<ipVars, readerVars, appVars>>

\* _process_image beginning again with the first prompt after a prompt that
\* failed
AfterPromptRestart(m, out) ==
    IF out = "raise"
    THEN /\ mpc' = [mpc EXCEPT ![m] = "backoff"]
         /\ UNCHANGED <<kprompt, extractions, cause>>
    ELSE IF out # "ok"
    THEN /\ mpc' = [mpc EXCEPT ![m] = "call"]
         /\ kprompt' = [kprompt EXCEPT ![m] = 1]
         /\ extractions' = [extractions EXCEPT ![m] = {}]
         /\ UNCHANGED cause
    ELSE /\ extractions' = [extractions EXCEPT ![m] = @ \cup {Prompts[kprompt[m]]}]
         /\ kprompt' = [kprompt EXCEPT ![m] = @ + 1]
         /\ mpc' = [mpc EXCEPT ![m] = IF kprompt[m] = Len(Prompts) THEN "claim" ELSE "call"]
         /\ UNCHANGED cause

\* _process_image going on to the next prompt after a prompt that failed
AfterPromptContinue(m, out) ==
    IF out = "raise"
    THEN /\ mpc' = [mpc EXCEPT ![m] = "backoff"]
         /\ UNCHANGED <<kprompt, extractions, cause>>
    ELSE /\ extractions' = [extractions EXCEPT ![m] =
                               IF out = "ok" THEN @ \cup {Prompts[kprompt[m]]} ELSE @]
         /\ kprompt' = [kprompt EXCEPT ![m] = @ + 1]
         /\ mpc' = [mpc EXCEPT ![m] = IF kprompt[m] = Len(Prompts) THEN "claim" ELSE "call"]
         /\ UNCHANGED cause

\* the step of _process_image after prompt k of the current file ended as `out`
AfterPrompt(m, out) ==
    IF out = "raise"
    THEN /\ mpc' = [mpc EXCEPT ![m] = "backoff"]
         /\ UNCHANGED <<kprompt, extractions, cause>>
    ELSE IF out # "ok"
    THEN /\ mpc' = [mpc EXCEPT ![m] = "logfail"]
         /\ cause' = [cause EXCEPT ![m] = out]
         /\ UNCHANGED <<kprompt, extractions>>
    ELSE /\ extractions' = [extractions EXCEPT ![m] = @ \cup {Prompts[kprompt[m]]}]
         /\ kprompt' = [kprompt EXCEPT ![m] = @ + 1]
         /\ mpc' = [mpc EXCEPT ![m] = IF kprompt[m] = Len(Prompts) THEN "claim" ELSE "call"]
         /\ UNCHANGED cause

\* one pass of the loop body of _process_image: _call_llm, json.loads,
\* validation, and the entry into extraction_results
MonCall(m) ==
    /\ mpc[m] = "call"
    /\ \E resp \in Responses : AfterPrompt(m, PromptOutcome(Prompts[kprompt[m]], resp))
    /\ UNCHANGED <<dirVars, error_logs, processed_files, listing, cur, logged,
                   saved, moved, invoked, save_called, drops, workerVars>>
    /\ UNCHANGED <<ipVars, readerVars, appVars>>

\* _log_error: the record is written, unless the write raises (the exception
\* is swallowed)
LogError(m, error_type, why) ==
    \/ /\ error_logs' = [image_filename |-> cur[m], error_type |-> error_type, why |-> why]
       /\ logged' = [logged EXCEPT ![m] = error_type]
    \/ /\ logged' = [logged EXCEPT ![m] = "write_failed"]
       /\ UNCHANGED error_logs

\* the failure branch without its _log_error call
MonLogFailSkipped(m) ==
    /\ mpc[m] = "logfail"
    /\ cause' = [cause EXCEPT ![m] = "none"]
    /\ mpc' = [mpc EXCEPT ![m] = "move_failed"]
    /\ UNCHANGED <<dirVars, error_logs, processed_files, sweepVars, kprompt, extractions,
                   logged, saved, moved, invoked, save_called, drops, workerVars>>
    /\ UNCHANGED <<ipVars, readerVars, appVars>>

\* `self._log_error(file_path, "PROCESSING_FAILED", ...)`
MonLogFail(m) ==
    /\ mpc[m] = "logfail"
    /\ LogError(m, "PROCESSING_FAILED", cause[m])
    /\ cause' = [cause EXCEPT ![m] = "none"]
    /\ mpc' = [mpc EXCEPT ![m] = "move_failed"]
    /\ UNCHANGED <<dirVars, processed_files, sweepVars, kprompt, extractions,
                   saved, moved, invoked, save_called, drops, workerVars>>
    /\ UNCHANGED <<ipVars, readerVars, appVars>>

\* _move_file: os.rename into dest_dir, or False when it raises
MoveFile(m, dest) ==
    \/ /\ cur[m] \in input_dir
       /\ input_dir' = input_dir \ {cur[m]}
       /\ IF dest = "failed"
          THEN failed_dir' = failed_dir \cup {cur[m]} /\ UNCHANGED processed_dir
          ELSE processed_dir' = processed_dir \cup {cur[m]} /\ UNCHANGED failed_dir
       /\ moved' = [moved EXCEPT ![m] = dest]
    \/ /\ moved' = [moved EXCEPT ![m] = "rename_failed"]
       /\ UNCHANGED dirVars

\* a failure branch that also adds the name to self.processed_files
MonMoveFailedClaiming(m) ==
    /\ mpc[m] = "move_failed"
    /\ MoveFile(m, "failed")
    /\ processed_files' = processed_files \cup {cur[m]}
    /\ mpc' = [mpc EXCEPT ![m] = "iter"]
    /\ UNCHANGED <<error_logs, sweepVars, kprompt, extractions,
                   cause, logged, saved, invoked, save_called, drops, workerVars>>
    /\ UNCHANGED <<ipVars, readerVars, appVars>>

\* `self._move_file(file_path, self.failed_dir)`
MonMoveFailed(m) ==
    /\ mpc[m] = "move_failed"
    /\ MoveFile(m, "failed")
    /\ mpc' = [mpc EXCEPT ![m] = "iter"]
    /\ UNCHANGED <<error_logs, processed_files, sweepVars, kprompt, extractions,
                   cause, logged, saved, invoked, save_called, drops, workerVars>>
    /\ UNCHANGED <<ipVars, readerVars, appVars>>

\* `self.processed_files.add(filename)` and `if self.database_handler:`
MonClaim(m) ==
    /\ mpc[m] = "claim"
    /\ processed_files' = processed_files \cup {cur[m]}
    /\ mpc' = [mpc EXCEPT ![m] = IF database_handler THEN "save" ELSE "move_processed"]
    /\ UNCHANGED <<dirVars, error_logs, sweepVars, fileVars, invoked, save_called,
                   drops, workerVars>>
    /\ UNCHANGED <<ipVars, readerVars, appVars>>

\* `self.database_handler.save_extraction_results(results)`: returns or raises
MonSave(m) ==
    /\ mpc[m] = "save"
    /\ save_called' = save_called \cup {cur[m]}
    /\ \/ /\ saved' = [saved EXCEPT ![m] = "stored"]
          /\ mpc' = [mpc EXCEPT ![m] = "move_processed"]
       \/ /\ saved' = [saved EXCEPT ![m] = "raised"]
          /\ mpc' = [mpc EXCEPT ![m] = "logdb"]
    /\ UNCHANGED <<dirVars, error_logs, processed_files, sweepVars, kprompt,
                   extractions, cause, logged, moved, invoked, drops, workerVars>>
    /\ UNCHANGED <<ipVars, readerVars, appVars>>

\* the handler of a raising save: `self._log_error(file_path, "DATABASE_ERROR",
\* ...)` and `continue`
MonLogDb(m) ==
    /\ mpc[m] = "logdb"
    /\ LogError(m, "DATABASE_ERROR", "database")
    /\ mpc' = [mpc EXCEPT ![m] = "iter"]
    /\ UNCHANGED <<dirVars, processed_files, sweepVars, kprompt, extractions,
                   cause, saved, moved, invoked, save_called, drops, workerVars>>
    /\ UNCHANGED <<ipVars, readerVars, appVars>>

\* `self._move_file(file_path, self.processed_dir)`
MonMoveProcessed(m) ==
    /\ mpc[m] = "move_processed"
    /\ MoveFile(m, "processed")
    /\ mpc' = [mpc EXCEPT ![m] = "iter"]
    /\ UNCHANGED <<error_logs, processed_files, sweepVars, kprompt, extractions,
                   cause, logged, saved, invoked, save_called, drops, workerVars>>
    /\ UNCHANGED <<ipVars, readerVars, appVars>>

\* a loop whose exception handler sits outside the `while`: after an exception
\* the thread ends
MonSleepExit(m) ==
    /\ mpc[m] \in {"sleep", "backoff"}
    /\ mpc' = [mpc EXCEPT ![m] = IF mpc[m] = "backoff" THEN "done" ELSE "check"]
    /\ UNCHANGED <<dirVars, error_logs, processed_files, sweepVars, fileVars,
                   invoked, save_called, drops, workerVars>>
    /\ UNCHANGED <<ipVars, readerVars, appVars>>

\* `time.sleep(1)` after a sweep, `time.sleep(5)` in the sweep-level handler
MonSleep(m) ==
    /\ mpc[m] \in {"sleep", "backoff"}
    /\ mpc' = [mpc EXCEPT ![m] = "check"]
    /\ UNCHANGED <<dirVars, error_logs, processed_files, sweepVars, fileVars,
                   invoked, save_called, drops, workerVars>>
    /\ UNCHANGED <<ipVars, readerVars, appVars>>

\* one step of the monitor loop thread m
MonitorLoop(m) ==
    \/ MonCheck(m)
    \/ MonList(m)
    \/ MonIter(m)
    \/ MonCall(m)
    \/ MonLogFail(m)
    \/ MonMoveFailed(m)
    \/ MonClaim(m)
    \/ MonSave(m)
    \/ MonLogDb(m)
    \/ MonMoveProcessed(m)
    \/ MonSleep(m)

----------------------------------------------------------------------------
(***************************************************************************)
(* F1SuperfanApp                                                           *)
(***************************************************************************)

\* the values capture.mode may have; "missing" is a configuration without it
Modes == {"manual", "periodic", "both", "missing", "off"}

\* the state the periodic capture loop starts from
InitPeriodic ==
    /\ periodic_enabled = TRUE
    /\ ppc = "unborn"
    /\ now = 1
    /\ output_path = NoFile
    /\ success = "-"

\* server_old.py before init_camera has run
InitOld ==
    /\ camera_initialized = FALSE
    /\ frame_lock = NoHolder
    /\ old_current_frame = NoFrame
    /\ old_captures = 0
    /\ ocpc = "unborn"
    /\ ocframe = NoFrame
    /\ vpc = [v \in Viewers |-> "idle"]

\* F1SuperfanApp.__init__
InitApp ==
    /\ app_pc = "none"
    /\ server = FALSE
    /\ periodic_capture_thread = FALSE
    /\ app_running = FALSE
    /\ capture_mode = "manual"
    /\ interval_ok = TRUE
    /\ InitPeriodic
    /\ InitOld

\* initialize_components: `self.image_processor = ImageProcessor(self.config)`
\* and `self.image_processor.start()`
AppStartImageProcessor ==
    /\ app_pc = "image_processor"
    /\ \E probe \in CaptureOutcomes : StartImageProcessor(probe)
    /\ app_pc' = "inference_worker"
    /\ UNCHANGED <<server, periodic_capture_thread, perVars, oldVars, extVars, readerVars, iwVars>>

\* initialize_components: `InferenceWorker(self.config, database_handler=None)`
\* and `self.inference_worker.start()`
AppStartInferenceWorker ==
    /\ app_pc = "inference_worker"
    /\ StartWorker
    /\ app_pc' = "server"
    /\ UNCHANGED <<server, periodic_capture_thread, perVars, oldVars, extVars, ipVars, readerVars>>

\* initialize_components: `self.server = F1SuperfanServer(...)`
AppCreateServer ==
    /\ app_pc = "server"
    /\ server' = TRUE
    /\ app_pc' = "periodic"
    /\ UNCHANGED <<periodic_capture_thread, perVars, oldVars, extVars, ipVars, readerVars, iwVars>>

\* run: the periodic capture thread is created and started, then the server
\* runs (blocking)
AppStartPeriodic ==
    /\ app_pc = "periodic"
    /\ periodic_capture_thread' = TRUE
    /\ app_pc' = "serving"
    /\ UNCHANGED <<server, perVars, oldVars, extVars, ipVars, readerVars, iwVars>>

\* `mode = capture_config.get('mode', 'manual')`
ModeOf(c) == IF c = "missing" THEN "manual" ELSE c

\* the head of _periodic_capture_loop without the test of the mode
PerBeginAnyMode ==
    /\ ppc = "unborn"
    /\ periodic_capture_thread
    /\ ppc' = "check"
    /\ UNCHANGED <<app_running, capture_mode, interval_ok, periodic_enabled, now,
                   output_path, success>>
    /\ UNCHANGED <<app_pc, server, periodic_capture_thread, oldVars, extVars>>
    /\ UNCHANGED <<ipVars, readerVars, iwVars>>

\* _periodic_capture_loop up to its `while`: lines 66-74
PerBegin ==
    /\ ppc = "unborn"
    /\ periodic_capture_thread
    /\ ppc' = IF ModeOf(capture_mode) \in {"periodic", "both"} THEN "check" ELSE "done"
    /\ UNCHANGED <<app_running, capture_mode, interval_ok, periodic_enabled, now,
                   output_path, success>>
    /\ UNCHANGED <<app_pc, server, periodic_capture_thread, oldVars, extVars>>
    /\ UNCHANGED <<ipVars, readerVars, iwVars>>

\* `while self.running:` of the periodic loop
PerCheck ==
    /\ ppc = "check"
    /\ ppc' = IF app_running THEN "tick" ELSE "done"
    /\ UNCHANGED <<app_running, capture_mode, interval_ok, periodic_enabled, now,
                   output_path, success>>
    /\ UNCHANGED <<app_pc, server, periodic_capture_thread, oldVars, extVars>>
    /\ UNCHANGED <<ipVars, readerVars, iwVars>>

\* lines 78-84: the filename of this second, and capture_single_frame is
\* entered (its get_current_frame call is about to start)
PerTick ==
    /\ ppc = "tick"
    /\ now <= Len(PeriodicNames)
    /\ output_path' = PeriodicNames[now]
    /\ success' = "-"
    /\ ppc' = "capture"
    /\ rpc' = [rpc EXCEPT ![PeriodicThread] = "idle"]
    /\ UNCHANGED <<rref, rbuf, rret>>
    /\ UNCHANGED <<app_running, capture_mode, interval_ok, periodic_enabled, now>>
    /\ UNCHANGED <<app_pc, server, periodic_capture_thread, oldVars, extVars>>
    /\ UNCHANGED <<ipVars, iwVars>>

\* capture_single_frame: `frame = self.get_current_frame()`
PerGetFrame ==
    /\ ppc = "capture"
    /\ GetCurrentFrame(PeriodicThread)

\* what os.makedirs and cv2.imwrite of capture_single_frame may do
WriteOutcomes == {"ok", "write_failed", "exception"}

\* capture_single_frame without its test for None
CaptureSingleFrameUnchecked(frame, o) == o

\* the value capture_single_frame returns for the frame it got: False for
\* None, else the result of the write ("ok" stands for True)
CaptureSingleFrame(frame, o) == IF frame = Blank THEN "no_frame" ELSE o

\* capture_single_frame after get_current_frame has returned, and the
\* logging of its result by the loop (lines 85-88)
PerWrite ==
    /\ ppc = "capture"
    /\ rpc[PeriodicThread] = "returned"
    /\ \E o \in WriteOutcomes :
         /\ success' = CaptureSingleFrame(rret[PeriodicThread], o)
         /\ input_dir' = IF success' = "ok" THEN input_dir \cup {output_path} ELSE input_dir
    /\ rpc' = [rpc EXCEPT ![PeriodicThread] = "parked"]
    /\ ppc' = "sleep"
    /\ UNCHANGED <<rref, rbuf, rret>>
    /\ UNCHANGED <<app_running, capture_mode, interval_ok, periodic_enabled, now,
                   output_path>>
    /\ UNCHANGED <<app_pc, server, periodic_capture_thread, oldVars, extVars>>
    /\ UNCHANGED <<processed_dir, failed_dir, error_logs, processed_files, mpc,
                   sweepVars, fileVars, invoked, save_called, drops, workerVars>>
    /\ UNCHANGED ipVars

\* a loop that returns when a capture fails
PerSleepFatal ==
    /\ ppc \in {"sleep", "backoff"}
    /\ IF ppc = "sleep" /\ ~interval_ok
       THEN ppc' = "backoff" /\ UNCHANGED now
       ELSE ppc' = (IF success = "ok" THEN "check" ELSE "done") /\ now' = now + 1
    /\ UNCHANGED <<app_running, capture_mode, interval_ok, periodic_enabled,
                   output_path, success>>
    /\ UNCHANGED <<app_pc, server, periodic_capture_thread, oldVars, extVars>>
    /\ UNCHANGED <<ipVars, readerVars, iwVars>>

\* `time.sleep(interval)`, which raises for an interval that is no
\* non-negative number, and the handler's `time.sleep(5)`
PerSleep ==
    /\ ppc \in {"sleep", "backoff"}
    /\ IF ppc = "sleep" /\ ~interval_ok
       THEN ppc' = "backoff" /\ UNCHANGED now
       ELSE ppc' = "check" /\ now' = now + 1
    /\ UNCHANGED <<app_running, capture_mode, interval_ok, periodic_enabled,
                   output_path, success>>
    /\ UNCHANGED <<app_pc, server, periodic_capture_thread, oldVars, extVars>>
    /\ UNCHANGED <<ipVars, readerVars, iwVars>>

\* one step of the periodic capture loop thread
PeriodicLoop ==
    \/ PerBegin
    \/ PerCheck
    \/ PerTick
    \/ PerGetFrame
    \/ PerWrite
    \/ PerSleep

\* periodic_enabled.clear() and periodic_enabled.set()
PeriodicEnabledClear ==
    /\ periodic_enabled
    /\ periodic_enabled' = FALSE
    /\ UNCHANGED <<app_running, capture_mode, interval_ok, ppc, now, output_path, success>>
    /\ UNCHANGED <<app_pc, server, periodic_capture_thread, oldVars, extVars>>
    /\ UNCHANGED <<ipVars, readerVars, iwVars>>

PeriodicEnabledSet ==
    /\ ~periodic_enabled
    /\ periodic_enabled' = TRUE
    /\ UNCHANGED <<app_running, capture_mode, interval_ok, ppc, now, output_path, success>>
    /\ UNCHANGED <<app_pc, server, periodic_capture_thread, oldVars, extVars>>
    /\ UNCHANGED <<ipVars, readerVars, iwVars>>

\* shutdown: `self.inference_worker.stop()`
AppShutdownWorker ==
    /\ app_pc = "serving"
    /\ StopWorker
    /\ app_pc' = "stop_image_processor"
    /\ UNCHANGED <<server, periodic_capture_thread, perVars, oldVars, extVars, ipVars, readerVars>>

\* shutdown: `self.image_processor.stop()`
AppShutdownImageProcessor ==
    /\ app_pc = "stop_image_processor"
    /\ StopImageProcessor
    /\ app_pc' = "join_periodic"
    /\ UNCHANGED <<server, periodic_capture_thread, perVars, oldVars, extVars, readerVars, iwVars>>

\* shutdown: `self.periodic_capture_thread.join(timeout=2.0)`, which returns
\* whether or not the thread has ended
AppShutdownJoin ==
    /\ app_pc = "join_periodic"
    /\ app_pc' = "stopped"
    /\ UNCHANGED <<server, periodic_capture_thread, perVars, oldVars, extVars, ipVars, readerVars,
                   iwVars>>

\* F1SuperfanApp.shutdown, called by the signal handler
Shutdown ==
    \/ AppShutdownWorker
    \/ AppShutdownImageProcessor
    \/ AppShutdownJoin

----------------------------------------------------------------------------
(***************************************************************************)
(* server_old.py                                                           *)
(***************************************************************************)

\* everything server_old.py does not touch
notOldVars == <<ipVars, readerVars, iwVars, app_pc, server, periodic_capture_thread, perVars,
                extVars>>

\* module level, lines 117-122: init_camera with its probe capture, and the
\* capture thread when the probe gave a frame
OldInitCamera ==
    /\ ocpc = "unborn"
    /\ \E probe \in CaptureOutcomes :
         IF probe = "frame"
         THEN camera_initialized' = TRUE /\ ocpc' = "check"
         ELSE camera_initialized' = FALSE /\ ocpc' = "absent"
    /\ UNCHANGED <<frame_lock, old_current_frame, old_captures, ocframe, vpc>>
    /\ UNCHANGED notOldVars

\* capture_frames: `while camera_initialized:`
OldCapCheck ==
    /\ ocpc = "check"
    /\ ocpc' = IF camera_initialized THEN "capture" ELSE "done"
    /\ UNCHANGED <<camera_initialized, frame_lock, old_current_frame, old_captures,
                   ocframe, vpc>>
    /\ UNCHANGED notOldVars

\* capture_frames: `frame = capture_single_frame()`
OldCapCapture ==
    /\ ocpc = "capture"
    /\ \E o \in CaptureOutcomes :
         \/ /\ o = "frame"
            /\ old_captures < MaxCaptures
            /\ old_captures' = old_captures + 1
            /\ ocframe' = old_captures + 1
            /\ ocpc' = "acquire"
         \/ /\ o = "none"
            /\ ocframe' = NoFrame
            /\ ocpc' = "backoff"
            /\ UNCHANGED old_captures
    /\ UNCHANGED <<camera_initialized, frame_lock, old_current_frame, vpc>>
    /\ UNCHANGED notOldVars

\* capture_frames: `with frame_lock:`
OldCapAcquire ==
    /\ ocpc = "acquire"
    /\ frame_lock = NoHolder
    /\ frame_lock' = OldCapThread
    /\ ocpc' = "store"
    /\ UNCHANGED <<camera_initialized, old_current_frame, old_captures, ocframe, vpc>>
    /\ UNCHANGED notOldVars

\* capture_frames: `current_frame = frame.copy()`
OldCapStore ==
    /\ ocpc = "store"
    /\ frame_lock = OldCapThread
    /\ old_current_frame' = ocframe
    /\ ocpc' = "release"
    /\ UNCHANGED <<camera_initialized, frame_lock, old_captures, ocframe, vpc>>
    /\ UNCHANGED notOldVars

\* capture_frames: the `with` block is left
OldCapRelease ==
    /\ ocpc = "release"
    /\ frame_lock = OldCapThread
    /\ frame_lock' = NoHolder
    /\ ocpc' = "sleep"
    /\ UNCHANGED <<camera_initialized, old_current_frame, old_captures, ocframe, vpc>>
    /\ UNCHANGED notOldVars

\* capture_frames: `time.sleep(0.033)`, or `time.sleep(1)` after a failure
OldCapSleep ==
    /\ ocpc \in {"sleep", "backoff"}
    /\ ocpc' = "check"
    /\ UNCHANGED <<camera_initialized, frame_lock, old_current_frame, old_captures,
                   ocframe, vpc>>
    /\ UNCHANGED notOldVars

\* one step of the capture_frames thread
OldCaptureFrames ==
    \/ OldCapCheck
    \/ OldCapCapture
    \/ OldCapAcquire
    \/ OldCapStore
    \/ OldCapRelease
    \/ OldCapSleep

\* generate(): `with frame_lock:`
VfAcquire(v) ==
    /\ vpc[v] = "idle"
    /\ frame_lock = NoHolder
    /\ frame_lock' = v
    /\ vpc' = [vpc EXCEPT ![v] = "test"]
    /\ UNCHANGED <<camera_initialized, old_current_frame, old_captures, ocpc, ocframe>>
    /\ UNCHANGED notOldVars

\* generate(): `if current_frame is not None:`
VfTest(v) ==
    /\ vpc[v] = "test"
    /\ vpc' = [vpc EXCEPT ![v] = IF old_current_frame # NoFrame THEN "encode" ELSE "release"]
    /\ UNCHANGED <<camera_initialized, frame_lock, old_current_frame, old_captures, ocpc,
                   ocframe>>
    /\ UNCHANGED notOldVars

\* generate(): `ret, buffer = cv2.imencode('.jpg', current_frame)` and `if ret:`
VfEncode(v) ==
    /\ vpc[v] = "encode"
    /\ \E ret \in BOOLEAN : vpc' = [vpc EXCEPT ![v] = IF ret THEN "yield" ELSE "release"]
    /\ UNCHANGED <<camera_initialized, frame_lock, old_current_frame, old_captures, ocpc,
                   ocframe>>
    /\ UNCHANGED notOldVars

\* generate(): `yield (...)`: the part is written to the client and the
\* generator is resumed, or the client has gone and the generator is closed,
\* which leaves the `with` block
VfYield(v) ==
    /\ vpc[v] = "yield"
    /\ \/ /\ vpc' = [vpc EXCEPT ![v] = "release"]
          /\ UNCHANGED frame_lock
       \/ /\ vpc' = [vpc EXCEPT ![v] = "closed"]
          /\ frame_lock' = NoHolder
    /\ UNCHANGED <<camera_initialized, old_current_frame, old_captures, ocpc, ocframe>>
    /\ UNCHANGED notOldVars

\* generate(): the `with` block is left
VfRelease(v) ==
    /\ vpc[v] = "release"
    /\ frame_lock = v
    /\ frame_lock' = NoHolder
    /\ vpc' = [vpc EXCEPT ![v] = "sleep"]
    /\ UNCHANGED <<camera_initialized, old_current_frame, old_captures, ocpc, ocframe>>
    /\ UNCHANGED notOldVars

\* generate(): `time.sleep(0.033)`
VfSleep(v) ==
    /\ vpc[v] = "sleep"
    /\ vpc' = [vpc EXCEPT ![v] = "idle"]
    /\ UNCHANGED <<camera_initialized, frame_lock, old_current_frame, old_captures, ocpc,
                   ocframe>>
    /\ UNCHANGED notOldVars

\* one step of the generator serving /video_feed to client v
VideoFeed(v) ==
    \/ VfAcquire(v)
    \/ VfTest(v)
    \/ VfEncode(v)
    \/ VfYield(v)
    \/ VfRelease(v)
    \/ VfSleep(v)

----------------------------------------------------------------------------
(***************************************************************************)
(* Callers of get_current_frame and the arrays they hold                   *)
(***************************************************************************)

\* what a caller's write leaves in a cell: a value no capture produces
Ink == MaxCaptures + 1

\* the array caller r holds after get_current_frame returned: its own copy,
\* or the storage of a held buffer
View(r) == IF ralias[r] = NoFrame THEN rret[r] ELSE heap[ralias[r]]

\* a caller writes into the array it received from get_current_frame
CallerWrite(r) ==
    /\ rpc[r] = "idle"
    /\ View(r) # Blank
    /\ \E i \in Cells :
         /\ View(r)[i] # Ink
         /\ IF ralias[r] = NoFrame
            THEN /\ rret' = [rret EXCEPT ![r][i] = Ink]
                 /\ UNCHANGED heap
            ELSE /\ heap' = [heap EXCEPT ![ralias[r]][i] = Ink]
                 /\ UNCHANGED rret
    /\ UNCHANGED <<rpc, rref, rbuf>>
    /\ UNCHANGED <<ip_running, initialized, probe_result, capture_thread, lock, current_frame,
                   nCaptures, cpc, cframe, fails>>
    /\ UNCHANGED <<iwVars, appVars>>

----------------------------------------------------------------------------
(***************************************************************************)
(* start and stop called one after the other by one controlling thread     *)
(***************************************************************************)

\* the capture-loop threads that were started and have not returned
AliveCapThreads == {t \in CapThreads : cpc[t] \notin {"unborn", "done"}}

\* ImageProcessor.start, called while no stop call is under way
SeqStart ==
    /\ stop_pc = "idle"
    /\ \E probe \in CaptureOutcomes : StartImageProcessor(probe)
    /\ UNCHANGED <<readerVars, iwVars, appVars>>

\* ImageProcessor.stop, lines 155-156: `self.running = False`
SeqStopFlag ==
    /\ stop_pc = "idle"
    /\ ip_running' = FALSE
    /\ stop_pc' = "join"
    /\ UNCHANGED <<initialized, probe_result, capture_thread, lock, current_frame, heap,
                   nCaptures, cpc, cframe, fails>>
    /\ UNCHANGED <<readerVars, iwVars, app_pc, server, periodic_capture_thread, perVars,
                   oldVars, ralias, callVars, instVars, logVars, lateVars>>

\* ImageProcessor.stop, lines 158-161: `self.capture_thread.join(timeout=2.0)`
\* returns when there is no thread, when the thread has returned, or after
\* 2 s while the thread is still inside a capture attempt (its subprocess may
\* run for 5 s, line 53)
SeqStopJoin ==
    /\ stop_pc = "join"
    /\ \/ capture_thread = NoThread
       \/ /\ capture_thread # NoThread
          /\ cpc[capture_thread] \in {"done", "capture"}
    /\ stop_pc' = "idle"
    /\ UNCHANGED ipVars
    /\ UNCHANGED <<readerVars, iwVars, app_pc, server, periodic_capture_thread, perVars,
                   oldVars, ralias, callVars, instVars, logVars, lateVars>>

----------------------------------------------------------------------------
(***************************************************************************)
(* The inference dispatcher: _call_ollama, _call_together, _call_llm       *)
(***************************************************************************)

\* calls of _call_llm that are recorded
MaxCalls == 2

\* llm.provider: 'together', or anything else for the Ollama endpoint: the
\* default, the same word in another case, a name the code does not know
Providers == {"ollama", "together", "Together", "openai"}

\* what a request to the Ollama endpoint may end as: a reply with a
\* 'response' field, requests.exceptions.Timeout, another RequestException
\* (connection error, HTTP error status), a reply that is no JSON, a reply
\* without a 'response' field, any other exception (unreadable image file)
OllamaEvents == {"ok", "timeout", "request_error", "undecodable_reply", "malformed_reply",
                 "other_exception"}

\* what a request to Together AI may end as: a stream with content, a stream
\* without content, any exception
TogetherEvents == {"ok", "empty_response", "request_error"}

BackendEvents(provider) == IF provider = "together" THEN TogetherEvents ELSE OllamaEvents

\* the value None, and the text of a response
None == "None"
ResponseText == "response_text"

\* _call_ollama: result['response'], or None from each failure branch
CallOllama(ev) ==
    CASE ev = "ok" -> ResponseText
      [] ev = "malformed_reply" -> None
      [] ev = "timeout" -> None
      [] ev = "request_error" -> None
      [] ev = "undecodable_reply" -> None
      [] OTHER -> None

\* _call_together: the collected text, or None when it is empty or when
\* anything raised
CallTogether(ev) ==
    CASE ev = "ok" -> ResponseText
      [] ev = "empty_response" -> None
      [] OTHER -> None

\* _call_llm, lines 184-187: the backend methods one call invokes, in order,
\* were a provider outside the two known names to invoke none
BackendsCalledKnown(provider, ev) ==
    IF provider = "together" THEN <<"_call_together">>
    ELSE IF provider = "ollama" THEN <<"_call_ollama">>
    ELSE <<>>

\* _call_llm, lines 184-187: the backend methods one call invokes, in order
BackendsCalled(provider, ev) ==
    IF provider = "together" THEN <<"_call_together">> ELSE <<"_call_ollama">>

\* _call_llm
CallLlm(provider, ev) ==
    IF provider = "together" THEN CallTogether(ev) ELSE CallOllama(ev)

\* one call `self._call_llm(image_path, prompt)` and what it returned
DispatchCall ==
    /\ Len(call_log) < MaxCalls
    /\ \E image_path \in ImageFiles, prompt \in PromptTypes, ev \in BackendEvents(llm_provider) :
         call_log' = Append(call_log, [image_path |-> image_path, prompt |-> prompt,
                                       event |-> ev,
                                       called |-> BackendsCalled(llm_provider, ev),
                                       result |-> CallLlm(llm_provider, ev)])
    /\ UNCHANGED <<llm_provider, prompt_input, prompt_result, validate_input, validate_result>>
    /\ UNCHANGED <<ipVars, readerVars, iwVars, app_pc, server, periodic_capture_thread,
                   perVars, oldVars, ralias, stop_pc, instVars, logVars, lateVars>>

----------------------------------------------------------------------------
(***************************************************************************)
(* The loop body of _process_image on one response text                    *)
(***************************************************************************)

\* the keys of llm.prompts a configuration may hold
ExtractionTypes == PromptTypes \cup {"full_extraction"}

\* how a response text spells a JSON value: the JSON document alone, the
\* document inside a fenced code block, the document with a comma before its
\* last closing brace or bracket, both, or text that holds no JSON value
TextForms == {"clean", "fenced", "trailing_comma", "fenced_trailing_comma", "garbage"}

\* the response texts: a form and the JSON value it spells; a comma before
\* the closing brace needs a member in front of it
ResponseTexts ==
    {t \in [form : TextForms, value : JsonValues] :
        /\ t.form \in {"trailing_comma", "fenced_trailing_comma"}
              => (t.value.kind = "list" \/ t.value.keys # {})
        /\ t.form = "garbage" => t.value = [kind |-> "list", keys |-> {}]}

\* json.JSONDecodeError, as a value of the shape of the parsed values
JSONDecodeError == [kind |-> "JSONDecodeError", keys |-> {}]

\* json.loads: the value of a JSON document; any character outside the
\* grammar (a fence line, a comma before a closing brace) is an error
JsonLoads(text) == IF text.form = "clean" THEN text.value ELSE JSONDecodeError

\* lines 216-235: json.loads on the response text as _call_llm returned it,
\* validation against the required keys when there are any, and the entry
\* into extraction_results; a failure is `return None`
ProcessResponse(extraction_type, response_text) ==
    LET response_data == JsonLoads(response_text)
        required_keys == RequiredKeys(extraction_type)
    IN  IF response_data = JSONDecodeError
        THEN [outcome |-> "json_decode", data |-> JSONDecodeError]
        ELSE IF required_keys # {} /\ ~ValidateJsonStructure(response_data, required_keys).ok
        THEN [outcome |-> "validation", data |-> response_data]
        ELSE [outcome |-> "ok", data |-> response_data]

\* one pass of the loop body after _call_llm returned a text
ProcessOneResponse ==
    /\ prompt_input.extraction_type # "-"
    /\ prompt_result.outcome = "-"
    /\ prompt_result' = ProcessResponse(prompt_input.extraction_type, prompt_input.response_text)
    /\ UNCHANGED <<llm_provider, call_log, prompt_input, validate_input, validate_result>>
    /\ UNCHANGED <<ipVars, readerVars, iwVars, app_pc, server, periodic_capture_thread,
                   perVars, oldVars, ralias, stop_pc, instVars, logVars, lateVars>>

----------------------------------------------------------------------------
(***************************************************************************)
(* validate_json_structure (src/src/utils.py)                              *)
(***************************************************************************)

\* the keys a required-key list or a parsed object may hold
ValidatedKeys == {"lap_number", "timing_table", "table_type"}

\* the values of `data`: a dict (by its key set), or a value that is no dict
ValidatedData ==
    [kind : {"dict"}, keys : SUBSET ValidatedKeys] \cup [kind : {"list", "str"}, keys : {{}}]

\* the required-key lists: keys in an order, none twice
RequiredKeyLists ==
    {q \in UNION {[1..n -> ValidatedKeys] : n \in 0..Cardinality(ValidatedKeys)} :
        \A i, j \in 1..Len(q) : q[i] = q[j] => i = j}

\* the messages; ', '.join(missing_keys) is kept as the list it spells
NotADictionary == [text |-> "Data is not a valid dictionary", keys |-> <<>>]
MissingRequiredKeys(missing_keys) == [text |-> "Missing required keys: ", keys |-> missing_keys]
NoMessage == [text |-> "None", keys |-> <<>>]

\* a validation that reports the first missing key only
validate_json_structure_first(data, required_keys) ==
    IF data.kind # "dict"
    THEN [is_valid |-> FALSE, error_msg |-> NotADictionary]
    ELSE LET missing_keys == SelectSeq(required_keys, LAMBDA key : key \notin data.keys)
         IN  IF missing_keys # <<>>
             THEN [is_valid |-> FALSE, error_msg |-> MissingRequiredKeys(<<Head(missing_keys)>>)]
             ELSE [is_valid |-> TRUE, error_msg |-> NoMessage]

\* validate_json_structure
validate_json_structure(data, required_keys) ==
    IF data.kind # "dict"
    THEN [is_valid |-> FALSE, error_msg |-> NotADictionary]
    ELSE LET missing_keys == SelectSeq(required_keys, LAMBDA key : key \notin data.keys)
         IN  IF missing_keys # <<>>
             THEN [is_valid |-> FALSE, error_msg |-> MissingRequiredKeys(missing_keys)]
             ELSE [is_valid |-> TRUE, error_msg |-> NoMessage]

\* one call of validate_json_structure
ValidateCall ==
    /\ validate_input # NoArguments
    /\ validate_result = NotReturned
    /\ validate_result' = validate_json_structure(validate_input.data,
                                                  validate_input.required_keys)
    /\ UNCHANGED <<llm_provider, call_log, prompt_input, prompt_result, validate_input>>
    /\ UNCHANGED <<ipVars, readerVars, iwVars, app_pc, server, periodic_capture_thread,
                   perVars, oldVars, ralias, stop_pc, instVars, logVars, lateVars>>

----------------------------------------------------------------------------
(***************************************************************************)
(* InferenceWorker objects constructed one after the other over the same   *)
(* directories, each started and stopped any number of times               *)
(***************************************************************************)

\* InferenceWorker objects constructed
MaxInstances == 2

\* a start() that begins from an empty claimed set each time
StartInstanceFresh ==
    /\ IF iw_running
       THEN UNCHANGED iwVars
       ELSE /\ \E m \in MonThreads : mpc[m] \in {"unborn", "done"}
            /\ LET m == CHOOSE u \in MonThreads : mpc[u] \in {"unborn", "done"} IN
               /\ iw_running' = TRUE
               /\ worker_thread' = m
               /\ mpc' = [mpc EXCEPT ![m] = "check"]
            /\ processed_files' = {}
            /\ UNCHANGED <<database_handler, dirVars, error_logs,
                           sweepVars, fileVars, invoked, save_called, drops>>
    /\ UNCHANGED <<instance, prev_claimed>>
    /\ UNCHANGED <<ipVars, readerVars, app_pc, server, periodic_capture_thread, perVars,
                   oldVars, ralias, stop_pc, callVars, logVars, lateVars>>

\* InferenceWorker.start on the current object: a new thread is created when
\* the flag is clear; the thread of an earlier start has returned
StartInstance ==
    /\ IF iw_running
       THEN UNCHANGED iwVars
       ELSE /\ \E m \in MonThreads : mpc[m] \in {"unborn", "done"}
            /\ LET m == CHOOSE u \in MonThreads : mpc[u] \in {"unborn", "done"} IN
               /\ iw_running' = TRUE
               /\ worker_thread' = m
               /\ mpc' = [mpc EXCEPT ![m] = "check"]
            /\ UNCHANGED <<database_handler, processed_files, dirVars, error_logs,
                           sweepVars, fileVars, invoked, save_called, drops>>
    /\ UNCHANGED <<instance, prev_claimed>>
    /\ UNCHANGED <<ipVars, readerVars, app_pc, server, periodic_capture_thread, perVars,
                   oldVars, ralias, stop_pc, callVars, logVars, lateVars>>

\* the process is restarted: its threads are gone, and InferenceWorker.__init__
\* builds a new object over the directories as they are (lines 50-53)
NewInstance ==
    /\ instance < MaxInstances
    /\ instance' = instance + 1
    /\ prev_claimed' = prev_claimed \cup processed_files
    /\ iw_running' = FALSE
    /\ worker_thread' = NoThread
    /\ processed_files' = {}
    /\ mpc' = [m \in MonThreads |-> "unborn"]
    /\ listing' = [m \in MonThreads |-> <<>>]
    /\ cur' = [m \in MonThreads |-> NoFile]
    /\ kprompt' = [m \in MonThreads |-> 0]
    /\ extractions' = [m \in MonThreads |-> {}]
    /\ cause' = [m \in MonThreads |-> "none"]
    /\ logged' = [m \in MonThreads |-> "no"]
    /\ saved' = [m \in MonThreads |-> "no"]
    /\ moved' = [m \in MonThreads |-> "no"]
    /\ invoked' = {}
    /\ save_called' = {}
    /\ UNCHANGED <<database_handler, dirVars, error_logs, drops>>
    /\ UNCHANGED <<ipVars, readerVars, app_pc, server, periodic_capture_thread, perVars,
                   oldVars, ralias, stop_pc, callVars, logVars, lateVars>>

----------------------------------------------------------------------------
(***************************************************************************)
(* _log_error and the files it writes                                      *)
(***************************************************************************)

\* the clock runs for MaxTicks ticks, TicksPerSecond of them to a second
MaxTicks == 4
TicksPerSecond == 2

\* the error types the monitor loop passes to _log_error
ErrorTypes == {"PROCESSING_FAILED", "DATABASE_ERROR"}

\* f"error_{datetime.now().strftime('%Y%m%d_%H%M%S')}.json": the time cut to
\* its second
LogFilename(t) == [prefix |-> "error_", second |-> t \div TicksPerSecond, suffix |-> ".json"]

\* time passes
LogClockTick ==
    /\ log_now < MaxTicks
    /\ log_now' = log_now + 1
    /\ UNCHANGED <<log_files, log_history>>
    /\ UNCHANGED <<ipVars, readerVars, iwVars, app_pc, server, periodic_capture_thread,
                   perVars, oldVars, ralias, stop_pc, callVars, instVars, lateVars>>

\* _log_error for a failed image: the record, stamped with the time of the
\* call, is written with open(log_path, 'w'), which creates the file or
\* replaces what a file of that name held; two calls never share a time
LogErrorCall ==
    /\ IF log_history = <<>> THEN TRUE
       ELSE log_history[Len(log_history)].timestamp < log_now
    /\ \E image_filename \in ImageFiles, error_type \in ErrorTypes :
         LET error_log == [timestamp |-> log_now, image_filename |-> image_filename,
                           error_type |-> error_type]
             log_filename == LogFilename(log_now)
         IN  /\ log_files' = {f \in log_files : f.name # log_filename}
                                \cup {[name |-> log_filename, content |-> error_log]}
             /\ log_history' = Append(log_history, error_log)
    /\ UNCHANGED log_now
    /\ UNCHANGED <<ipVars, readerVars, iwVars, app_pc, server, periodic_capture_thread,
                   perVars, oldVars, ralias, stop_pc, callVars, instVars, lateVars>>

----------------------------------------------------------------------------
(***************************************************************************)
(* A sweep of the monitor loop with the files _log_error leaves in the     *)
(* failed directory                                                        *)
(***************************************************************************)

\* the failure branch of the sweep, lines 327-330, with the file _log_error
\* writes: `self._log_error(file_path, "PROCESSING_FAILED", ...)`
SweepLogFail(m) ==
    /\ mpc[m] = "logfail"
    /\ IF log_history = <<>> THEN TRUE
       ELSE log_history[Len(log_history)].timestamp < log_now
    /\ LogError(m, "PROCESSING_FAILED", cause[m])
    /\ IF logged'[m] = "write_failed"
       THEN UNCHANGED <<log_files, log_history>>
       ELSE LET error_log == [timestamp |-> log_now, image_filename |-> cur[m],
                              error_type |-> "PROCESSING_FAILED"]
                log_filename == LogFilename(log_now)
            IN  /\ log_files' = {f \in log_files : f.name # log_filename}
                                   \cup {[name |-> log_filename, content |-> error_log]}
                /\ log_history' = Append(log_history, error_log)
    /\ cause' = [cause EXCEPT ![m] = "none"]
    /\ mpc' = [mpc EXCEPT ![m] = "move_failed"]
    /\ UNCHANGED <<dirVars, processed_files, sweepVars, kprompt, extractions,
                   saved, moved, invoked, save_called, drops, workerVars>>
    /\ UNCHANGED log_now
    /\ UNCHANGED <<ipVars, readerVars, app_pc, server, periodic_capture_thread, perVars,
                   oldVars, ralias, stop_pc, callVars, instVars, lateVars>>

\* every other step of the monitor loop of a worker without database
\* handler; os.rename does not fail and no exception reaches the sweep-level
\* handler
SweepStep(m) ==
    /\ mpc[m] # "logfail"
    /\ ~database_handler
    /\ MonitorLoop(m)
    /\ mpc'[m] # "backoff"
    /\ moved'[m] # "rename_failed"

----------------------------------------------------------------------------
(***************************************************************************)
(* One backend method called on its own: _call_together on a stream of     *)
(* chunks, _call_ollama on a request                                       *)
(***************************************************************************)

\* chunks a stream delivers at most
MaxChunks == 3

\* delta.content of a choice: None, the empty string, or a piece of text
NoContent == [is_none |-> TRUE, text |-> <<>>]
ChunkContents ==
    {NoContent} \cup {[is_none |-> FALSE, text |-> t] : t \in {<<>>, <<"a">>, <<"b">>}}

\* a chunk: its list of choices, empty or holding one choice's content
StreamChunks == [choices : {<<>>} \cup {<<c>> : c \in ChunkContents}]

\* how a request to Together AI ends: the stream is read to its end,
\* chat.completions.create raises, or the iteration raises after the chunks
StreamEnds == {"complete", "request_raises", "stream_raises"}

\* the requests a backend method may meet
BackendRequests ==
    {[backend |-> "together", end |-> e, chunks |-> q] :
        e \in {"complete", "stream_raises"},
        q \in UNION {[1..k -> StreamChunks] : k \in 0..MaxChunks}}
    \cup {[backend |-> "together", end |-> "request_raises", chunks |-> <<>>]}
    \cup {[backend |-> "ollama", end |-> e, chunks |-> <<>>] : e \in OllamaEvents}

\* what a backend method hands to its caller: a text, None, or an exception
ReturnedNone == [called |-> TRUE, raised |-> FALSE, is_none |-> TRUE, text |-> <<>>]
ReturnedText(t) == [called |-> TRUE, raised |-> FALSE, is_none |-> FALSE, text |-> t]
Raised == [called |-> TRUE, raised |-> TRUE, is_none |-> FALSE, text |-> <<>>]

\* `if content:`
Truthy(content) == ~content.is_none /\ content.text # <<>>

\* lines 104-109, were each content put in front of the text collected so far
RECURSIVE CollectStreamNewestFirst(_)
CollectStreamNewestFirst(chunks) ==
    IF chunks = <<>> THEN <<>>
    ELSE LET chunk == Head(chunks)
         IN  CollectStreamNewestFirst(Tail(chunks))
               \o (IF chunk.choices # <<>> /\ Truthy(chunk.choices[1])
                   THEN chunk.choices[1].text ELSE <<>>)

\* lines 104-109: response_text += content for every chunk with choices whose
\* first choice has content
RECURSIVE CollectStream(_)
CollectStream(chunks) ==
    IF chunks = <<>> THEN <<>>
    ELSE LET chunk == Head(chunks)
         IN  (IF chunk.choices # <<>> /\ Truthy(chunk.choices[1])
              THEN chunk.choices[1].text ELSE <<>>)
               \o CollectStream(Tail(chunks))

\* the try block of _call_together, lines 72-115: the request or the
\* iteration raises, an empty collected text returns None
TogetherTry(request) ==
    IF request.end # "complete" THEN Raised
    ELSE LET response_text == CollectStream(request.chunks)
         IN  IF response_text = <<>> THEN ReturnedNone ELSE ReturnedText(response_text)

\* _call_together: `except Exception` (lines 117-119) returns None
CallTogetherStream(request) ==
    LET tried == TogetherTry(request)
    IN  IF tried.raised THEN ReturnedNone ELSE tried

\* the try block of _call_ollama, lines 133-158: a reply with a 'response'
\* field is returned, one without returns None, everything else raises
OllamaTry(request) ==
    CASE request.end = "ok" -> ReturnedText(<<ResponseText>>)
      [] request.end = "malformed_reply" -> ReturnedNone
      [] OTHER -> Raised

\* _call_ollama: the except clauses of lines 160-171 (Timeout,
\* RequestException, JSONDecodeError, Exception) each return None
CallOllamaRequest(request) ==
    LET tried == OllamaTry(request)
    IN  IF tried.raised /\ request.end \in {"timeout", "request_error", "undecodable_reply",
                                            "other_exception"}
        THEN ReturnedNone ELSE tried

\* one call of a backend method
BackendCall ==
    /\ ~backend_result.called
    /\ backend_result' = IF backend_input.backend = "together"
                         THEN CallTogetherStream(backend_input)
                         ELSE CallOllamaRequest(backend_input)
    /\ UNCHANGED backend_input
    /\ UNCHANGED <<ipVars, readerVars, iwVars, app_pc, server, periodic_capture_thread,
                   perVars, oldVars, ralias, stop_pc, callVars, instVars, logVars, manualVars, stopVars, writeVars>>

----------------------------------------------------------------------------
(***************************************************************************)
(* The /manual_capture route of F1SuperfanServer (src/src/server.py)       *)
(***************************************************************************)

\* requests to /manual_capture that are recorded
MaxRequests == 2

\* one POST /manual_capture: 503 when the camera is not initialized; else the
\* name of the clock second, capture_single_frame into the directory of
\* capture.storage_paths.manual, and 200 or 500 by its result
ManualCapture ==
    /\ server
    /\ app_pc = "serving"
    /\ Len(manual_log) < MaxRequests
    /\ lock = NoHolder
    /\ \E timestamp \in manual_now..Len(ManualNames), o \in WriteOutcomes :
         LET filename == ManualNames[timestamp]
             frame == IF current_frame = NoFrame THEN Blank ELSE heap[current_frame]
             status == IF ~initialized THEN "503"
                       ELSE IF CaptureSingleFrame(frame, o) = "ok" THEN "200" ELSE "500"
         IN  /\ manual_now' = timestamp
             /\ manual_log' = Append(manual_log,
                                     [status |-> status,
                                      filename |-> IF status = "200" THEN filename ELSE NoFile])
             /\ IF status # "200"
                THEN UNCHANGED <<input_dir, manual_dir>>
                ELSE IF storage_manual = InputPath
                THEN input_dir' = input_dir \cup {filename} /\ UNCHANGED manual_dir
                ELSE manual_dir' = manual_dir \cup {filename} /\ UNCHANGED input_dir
    /\ UNCHANGED storage_manual
    /\ UNCHANGED <<processed_dir, failed_dir, error_logs, processed_files, mpc,
                   sweepVars, fileVars, invoked, save_called, drops, workerVars>>
    /\ UNCHANGED <<ipVars, readerVars, app_pc, server, periodic_capture_thread, perVars,
                   oldVars, ralias, stop_pc, callVars, instVars, logVars, backendVars, stopVars, writeVars>>

----------------------------------------------------------------------------
(***************************************************************************)
(* InferenceWorker.stop called while a sweep is in progress                *)
(***************************************************************************)

\* the positions of the monitor loop inside the `for` loop of a sweep
InSweep == {"iter", "call", "logfail", "move_failed", "claim", "save", "logdb", "move_processed"}

\* the names a thread's sweep has still to visit and never handed to
\* _process_image
Remaining(m) ==
    IF mpc[m] \in InSweep
    THEN {listing[m][i] : i \in 1..Len(listing[m])} \ (processed_files \cup invoked)
    ELSE {}

\* InferenceWorker.stop (lines 368-380), noting what the sweep in progress
\* had still to visit when the flag was cleared
StopDuringSweep ==
    /\ StopWorker
    /\ stop_listing' = IF iw_running THEN UNION {Remaining(m) : m \in MonThreads}
                       ELSE stop_listing
    /\ UNCHANGED <<ipVars, readerVars, app_pc, server, periodic_capture_thread, perVars,
                   oldVars, ralias, stop_pc, callVars, instVars, logVars, backendVars,
                   manualVars, writeVars>>

----------------------------------------------------------------------------
(***************************************************************************)
(* InferenceWorker.start and stop called one after the other by one        *)
(* controlling thread                                                      *)
(***************************************************************************)

\* the thread identities two start calls may create
WorkerThreads == {"m1", "m2"}

\* the monitor-loop threads that were started and have not returned
AliveMonThreads == {m \in DOMAIN mpc : mpc[m] \notin {"unborn", "done"}}

\* InferenceWorker.start, called while no stop call is under way
WorkerSeqStart ==
    /\ stop_pc = "idle"
    /\ StartWorker
    /\ UNCHANGED <<ipVars, readerVars, appVars>>

\* InferenceWorker.stop, lines 370-375: a no-op when not running, else
\* `self.running = False`
WorkerSeqStopFlag ==
    /\ stop_pc = "idle"
    /\ StopWorker
    /\ stop_pc' = IF iw_running THEN "join" ELSE "idle"
    /\ UNCHANGED <<ipVars, readerVars, app_pc, server, periodic_capture_thread, perVars,
                   oldVars, ralias, callVars, instVars, logVars, lateVars>>

\* InferenceWorker.stop, lines 377-380: `self.worker_thread.join(timeout=5.0)`
\* returns when the thread has returned, or after 5 s while the thread is
\* still inside a backend call (requests.post waits up to 90 s, line 148)
WorkerSeqStopJoin ==
    /\ stop_pc = "join"
    /\ \/ worker_thread = NoThread
       \/ /\ worker_thread # NoThread
          /\ mpc[worker_thread] \in {"done", "call"}
    /\ stop_pc' = "idle"
    /\ UNCHANGED <<ipVars, readerVars, iwVars, app_pc, server, periodic_capture_thread,
                   perVars, oldVars, ralias, callVars, instVars, logVars, lateVars>>

----------------------------------------------------------------------------
(***************************************************************************)
(* capture_single_frame writing its file: cv2.imwrite creates the file at  *)
(* output_path and then fills it                                           *)
(***************************************************************************)

\* capture_single_frame after get_current_frame has returned, up to the
\* moment cv2.imwrite has created the file at output_path (lines 134-139):
\* no file for None, for a failing os.makedirs and for a path cv2.imwrite
\* cannot open
PerWriteOpen ==
    /\ ppc = "capture"
    /\ rpc[PeriodicThread] = "returned"
    /\ \E o \in WriteOutcomes :
         LET result == CaptureSingleFrame(rret[PeriodicThread], o)
         IN  IF result = "ok"
             THEN /\ input_dir' = input_dir \cup {output_path}
                  /\ partial' = partial \cup {output_path}
                  /\ ppc' = "writing"
                  /\ UNCHANGED success
             ELSE /\ success' = result
                  /\ ppc' = "sleep"
                  /\ UNCHANGED <<input_dir, partial>>
    /\ rpc' = [rpc EXCEPT ![PeriodicThread] = "parked"]
    /\ UNCHANGED <<rref, rbuf, rret>>
    /\ UNCHANGED <<app_running, capture_mode, interval_ok, periodic_enabled, now,
                   output_path>>
    /\ UNCHANGED <<app_pc, server, periodic_capture_thread, oldVars, ralias, stop_pc,
                   callVars, instVars, logVars, backendVars, manualVars, stopVars>>
    /\ UNCHANGED <<processed_dir, failed_dir, error_logs, processed_files, mpc,
                   sweepVars, fileVars, invoked, save_called, drops, workerVars>>
    /\ UNCHANGED ipVars

\* cv2.imwrite has written the whole image and returns True; the loop logs
\* the success (lines 139-145 of image_processor.py, 85-86 of main.py)
PerWriteClose ==
    /\ ppc = "writing"
    /\ partial' = partial \ {output_path}
    /\ success' = "ok"
    /\ ppc' = "sleep"
    /\ UNCHANGED <<app_running, capture_mode, interval_ok, periodic_enabled, now,
                   output_path>>
    /\ UNCHANGED <<app_pc, server, periodic_capture_thread, oldVars, ralias, stop_pc,
                   callVars, instVars, logVars, backendVars, manualVars, stopVars>>
    /\ UNCHANGED <<ipVars, readerVars, iwVars>>

\* one step of the periodic capture loop thread, its write in two steps
PeriodicLoopWriting ==
    \/ PerBegin
    \/ PerCheck
    \/ PerTick
    \/ PerGetFrame
    \/ PerWriteOpen
    \/ PerWriteClose
    \/ PerSleep

----------------------------------------------------------------------------
(***************************************************************************)
(* Specifications                                                          *)
(***************************************************************************)

\* the methods of ImageProcessor called from outside its thread
IPStart ==
    /\ \E probe \in CaptureOutcomes : StartImageProcessor(probe)
    /\ UNCHANGED <<readerVars, iwVars, appVars>>

IPStop ==
    /\ StopImageProcessor
    /\ UNCHANGED <<readerVars, iwVars, appVars>>

\* the methods of InferenceWorker called from outside its thread
IWStart ==
    /\ StartWorker
    /\ UNCHANGED <<ipVars, readerVars, appVars>>

IWStop ==
    /\ StopWorker
    /\ UNCHANGED <<ipVars, readerVars, appVars>>

\* ImageProcessor with its capture loop and concurrent get_current_frame
\* callers; the worker is constructed and never started
InitFrame ==
    /\ InitImageProcessor
    /\ InitReaders
    /\ InitInferenceWorker
    /\ InitCallers
    /\ database_handler = FALSE
    /\ input_dir = OtherFiles
    /\ InitApp

NextFrame ==
    \/ IPStart
    \/ IPStop
    \/ \E t \in CapThreads : CaptureLoop(t)
    \/ \E r \in Readers : GetCurrentFrame(r)

SpecFrame == InitFrame /\ [][NextFrame]_vars

\* InferenceWorker over an input directory that producers fill; the camera
\* is constructed and never started
InitWorker ==
    /\ InitImageProcessor
    /\ InitReaders
    /\ InitInferenceWorker
    /\ InitCallers
    /\ database_handler \in BOOLEAN
    /\ \E S \in SUBSET ImageFiles : input_dir = S \cup OtherFiles
    /\ InitApp

NextWorker ==
    \/ IWStart
    \/ IWStop
    \/ \E f \in ImageFiles : Drop(f)
    \/ \E m \in MonThreads : MonitorLoop(m)

SpecWorker == InitWorker /\ [][NextWorker]_vars

\* the application as F1SuperfanApp.run wires it: the worker is constructed
\* with database_handler=None over an input directory that holds image files
InitAppRun ==
    /\ InitImageProcessor
    /\ InitReaders
    /\ InitInferenceWorker
    /\ InitCallers
    /\ database_handler = FALSE
    /\ input_dir = {"a.jpg"} \cup OtherFiles
    /\ app_pc = "image_processor"
    /\ server = FALSE
    /\ periodic_capture_thread = FALSE
    /\ app_running = TRUE
    /\ capture_mode = "manual"
    /\ interval_ok = TRUE
    /\ InitPeriodic
    /\ InitOld

\* a step of the monitor thread that initialize_components started; its
\* worker has no database handler, so the save branch is never taken
AppMonitorLoop(m) ==
    /\ app_pc \in {"server", "periodic", "serving"}
    /\ ~database_handler
    /\ MonitorLoop(m)

NextApp ==
    \/ AppStartImageProcessor
    \/ AppStartInferenceWorker
    \/ AppCreateServer
    \/ AppStartPeriodic
    \/ \E t \in CapThreads : CaptureLoop(t)
    \/ \E m \in MonThreads : AppMonitorLoop(m)

SpecApp == InitAppRun /\ [][NextApp]_vars

\* a step of the monitor loop in which nothing is injected: no exception
\* reaches the sweep-level handler and os.rename does not fail
MonitorUndisturbed(m) ==
    /\ MonitorLoop(m)
    /\ mpc'[m] # "backoff"
    /\ moved'[m] # "rename_failed"

NextWorkerLive ==
    \/ IWStart
    \/ \E m \in MonThreads : MonitorUndisturbed(m)

\* the worker is started and never stopped, and its thread keeps being scheduled
SpecWorkerLive ==
    /\ InitWorker
    /\ [][NextWorkerLive]_vars
    /\ WF_vars(IWStart)
    /\ \A m \in MonThreads : WF_vars(MonitorUndisturbed(m))

\* the application from F1SuperfanApp.run to the end of shutdown, with the
\* capture loop and the periodic capture loop at work; the input directory
\* holds no image before the first tick
InitRun ==
    /\ InitImageProcessor
    /\ InitReaders
    /\ InitInferenceWorker
    /\ InitCallers
    /\ database_handler = FALSE
    /\ input_dir = OtherFiles
    /\ app_pc = "image_processor"
    /\ server = FALSE
    /\ periodic_capture_thread = FALSE
    /\ app_running = TRUE
    /\ capture_mode \in Modes
    /\ interval_ok \in BOOLEAN
    /\ InitPeriodic
    /\ InitOld

NextRun ==
    \/ AppStartImageProcessor
    \/ AppStartInferenceWorker
    \/ AppCreateServer
    \/ AppStartPeriodic
    \/ Shutdown
    \/ PeriodicEnabledClear
    \/ PeriodicEnabledSet
    \/ \E t \in CapThreads : CaptureLoop(t)
    \/ PeriodicLoop

SpecRun == InitRun /\ [][NextRun]_vars

\* the same application with its capture thread and its periodic thread
\* kept scheduled
SpecRunLive ==
    /\ InitRun
    /\ [][NextRun]_vars
    /\ \A t \in CapThreads : WF_vars(CaptureLoop(t))
    /\ WF_vars(PeriodicLoop)

\* server_old.py run on its own: its capture thread and the clients of
\* /video_feed
InitOldServer ==
    /\ InitImageProcessor
    /\ InitReaders
    /\ InitInferenceWorker
    /\ InitCallers
    /\ database_handler = FALSE
    /\ input_dir = OtherFiles
    /\ InitApp

NextOldServer ==
    \/ OldInitCamera
    \/ OldCaptureFrames
    \/ \E v \in Viewers : VideoFeed(v)

SpecOldServer == InitOldServer /\ [][NextOldServer]_vars

\* the three loops of the application side by side: the capture loop, the
\* periodic capture loop in mode 'periodic', and the monitor loop, whose
\* first inference call never returns
InitPipeline ==
    /\ InitImageProcessor
    /\ InitReaders
    /\ InitInferenceWorker
    /\ InitCallers
    /\ database_handler = FALSE
    /\ input_dir = OtherFiles
    /\ app_pc = "image_processor"
    /\ server = FALSE
    /\ periodic_capture_thread = FALSE
    /\ app_running = TRUE
    /\ capture_mode = "periodic"
    /\ interval_ok = TRUE
    /\ InitPeriodic
    /\ InitOld

\* a step of the monitor thread other than the return of _call_llm: the
\* backend call it has entered stalls
StalledMonitorLoop(m) ==
    /\ mpc[m] # "call"
    /\ AppMonitorLoop(m)

NextPipeline ==
    \/ AppStartImageProcessor
    \/ AppStartInferenceWorker
    \/ AppCreateServer
    \/ AppStartPeriodic
    \/ \E t \in CapThreads : CaptureLoop(t)
    \/ PeriodicLoop
    \/ \E m \in MonThreads : StalledMonitorLoop(m)

SpecPipeline == InitPipeline /\ [][NextPipeline]_vars

\* the two producers are kept scheduled; nothing is assumed of the monitor
SpecPipelineLive ==
    /\ InitPipeline
    /\ [][NextPipeline]_vars
    /\ \A t \in CapThreads : WF_vars(CaptureLoop(t))
    /\ WF_vars(PeriodicLoop)

\* ImageProcessor with its capture loop, and callers that write into the
\* frames get_current_frame handed them
NextCopy ==
    \/ IPStart
    \/ \E t \in CapThreads : CaptureLoop(t)
    \/ \E r \in Readers : GetCurrentFrame(r)
    \/ \E r \in Readers : CallerWrite(r)

SpecCopy == InitFrame /\ [][NextCopy]_vars

\* ImageProcessor driven by any sequence of start and stop calls, each call
\* returning before the next is made
NextRestart ==
    \/ SeqStart
    \/ SeqStopFlag
    \/ SeqStopJoin
    \/ \E t \in CapThreads : CaptureLoop(t)

SpecRestart == InitFrame /\ [][NextRestart]_vars

\* everything but the callers' state, as constructed and never started
InitIdle ==
    /\ InitImageProcessor
    /\ InitReaders
    /\ InitInferenceWorker
    /\ database_handler = FALSE
    /\ input_dir = OtherFiles
    /\ InitApp

\* the dispatcher called on its own, under either provider
InitDispatch ==
    /\ InitIdle
    /\ InitHandles
    /\ llm_provider \in Providers
    /\ call_log = <<>>
    /\ InitPrompt
    /\ InitValidate
    /\ InitLate

NextDispatch == DispatchCall

SpecDispatch == InitDispatch /\ [][NextDispatch]_vars

\* the loop body of _process_image applied to one response text of one
\* extraction type
InitResponse ==
    /\ InitIdle
    /\ InitHandles
    /\ InitDispatcher
    /\ prompt_input \in [extraction_type : ExtractionTypes, response_text : ResponseTexts]
    /\ prompt_result = NotRun
    /\ InitValidate
    /\ InitLate

NextResponse == ProcessOneResponse

SpecResponse == InitResponse /\ [][NextResponse]_vars

\* validate_json_structure called on any data with any required-key list
InitValidation ==
    /\ InitIdle
    /\ InitHandles
    /\ InitDispatcher
    /\ InitPrompt
    /\ validate_input \in [data : ValidatedData, required_keys : RequiredKeyLists]
    /\ validate_result = NotReturned
    /\ InitLate

NextValidation == ValidateCall

SpecValidation == InitValidation /\ [][NextValidation]_vars

\* worker objects built one after the other over an input directory that
\* holds image files; each is started, stopped and started again
InitInstances ==
    /\ InitImageProcessor
    /\ InitReaders
    /\ InitInferenceWorker
    /\ InitCallers
    /\ database_handler \in BOOLEAN
    /\ \E S \in SUBSET ImageFiles : input_dir = S \cup OtherFiles
    /\ InitApp

NextInstances ==
    \/ StartInstance
    \/ IWStop
    \/ NewInstance
    \/ \E m \in MonThreads : MonitorLoop(m)

SpecInstances == InitInstances /\ [][NextInstances]_vars

\* the failures the worker handles as time passes, each logged by _log_error
NextErrorLog ==
    \/ LogClockTick
    \/ LogErrorCall

InitErrorLog ==
    /\ InitIdle
    /\ InitCallers

SpecErrorLog == InitErrorLog /\ [][NextErrorLog]_vars

\* a worker without database handler sweeping an input directory that holds
\* both image files and another file, as time passes
InitSweep ==
    /\ InitImageProcessor
    /\ InitReaders
    /\ InitInferenceWorker
    /\ InitCallers
    /\ database_handler = FALSE
    /\ input_dir = ImageFiles \cup OtherFiles
    /\ InitApp

NextSweep ==
    \/ IWStart
    \/ LogClockTick
    \/ \E m \in MonThreads : SweepLogFail(m)
    \/ \E m \in MonThreads : SweepStep(m)

SpecSweep == InitSweep /\ [][NextSweep]_vars

\* one backend method called on any request
InitBackendCall ==
    /\ InitIdle
    /\ InitHandles
    /\ InitDispatcher
    /\ InitPrompt
    /\ InitValidate
    /\ InitManualCapture
    /\ InitStop
    /\ InitWrite
    /\ backend_input \in BackendRequests
    /\ backend_result = NotCalled

NextBackendCall == BackendCall

SpecBackendCall == InitBackendCall /\ [][NextBackendCall]_vars

\* the application as F1SuperfanApp.run wires it, serving /manual_capture,
\* under either value of capture.storage_paths.manual; the input directory
\* holds no image before the first request
InitManual ==
    /\ InitImageProcessor
    /\ InitReaders
    /\ InitInferenceWorker
    /\ InitHandles
    /\ InitDispatcher
    /\ InitPrompt
    /\ InitValidate
    /\ InitBackend
    /\ InitStop
    /\ InitWrite
    /\ storage_manual \in StoragePaths
    /\ manual_dir = {}
    /\ manual_now = 1
    /\ manual_log = <<>>
    /\ database_handler = FALSE
    /\ input_dir = OtherFiles
    /\ app_pc = "image_processor"
    /\ server = FALSE
    /\ periodic_capture_thread = FALSE
    /\ app_running = TRUE
    /\ capture_mode = "manual"
    /\ interval_ok = TRUE
    /\ InitPeriodic
    /\ InitOld

\* a step of the application's monitor thread in which nothing is injected
ManualMonitorLoop(m) ==
    /\ AppMonitorLoop(m)
    /\ mpc'[m] # "backoff"
    /\ moved'[m] # "rename_failed"

NextManual ==
    \/ AppStartImageProcessor
    \/ AppStartInferenceWorker
    \/ AppCreateServer
    \/ AppStartPeriodic
    \/ \E t \in CapThreads : CaptureLoop(t)
    \/ \E m \in MonThreads : ManualMonitorLoop(m)
    \/ ManualCapture

SpecManual == InitManual /\ [][NextManual]_vars

\* the same application with its start-up, its capture thread and its
\* monitor thread kept scheduled
SpecManualLive ==
    /\ InitManual
    /\ [][NextManual]_vars
    /\ WF_vars(AppStartImageProcessor)
    /\ WF_vars(AppStartInferenceWorker)
    /\ WF_vars(AppCreateServer)
    /\ WF_vars(AppStartPeriodic)
    /\ \A t \in CapThreads : WF_vars(CaptureLoop(t))
    /\ \A m \in MonThreads : WF_vars(ManualMonitorLoop(m))

\* a worker over an input directory that holds both image files, started
\* once and stopped at any moment
InitStopped ==
    /\ InitImageProcessor
    /\ InitReaders
    /\ InitInferenceWorker
    /\ InitCallers
    /\ database_handler \in BOOLEAN
    /\ input_dir = ImageFiles \cup OtherFiles
    /\ InitApp

NextStopped ==
    \/ IWStart
    \/ StopDuringSweep
    \/ \E m \in MonThreads : MonitorLoop(m)

SpecStopped == InitStopped /\ [][NextStopped]_vars

\* a worker over an input directory that holds one image file, started and
\* stopped any number of times by one controlling thread
InitWorkerRestart ==
    /\ InitImageProcessor
    /\ InitReaders
    /\ InitInferenceWorkerOver(WorkerThreads)
    /\ InitCallers
    /\ database_handler \in BOOLEAN
    /\ input_dir = {"a.jpg"} \cup OtherFiles
    /\ InitApp

NextWorkerRestart ==
    \/ WorkerSeqStart
    \/ WorkerSeqStopFlag
    \/ WorkerSeqStopJoin
    \/ \E m \in WorkerThreads : MonitorLoop(m)

SpecWorkerRestart == InitWorkerRestart /\ [][NextWorkerRestart]_vars

\* the three loops of the application side by side, with the file of a
\* periodic tick created before its content is written
NextWriting ==
    \/ AppStartImageProcessor
    \/ AppStartInferenceWorker
    \/ AppCreateServer
    \/ AppStartPeriodic
    \/ \E t \in CapThreads : CaptureLoop(t)
    \/ PeriodicLoopWriting
    \/ \E m \in MonThreads : StalledMonitorLoop(m)

SpecWriting == InitPipeline /\ [][NextWriting]_vars

Spec == SpecWorker

----------------------------------------------------------------------------
(***************************************************************************)
(* Properties                                                              *)
(***************************************************************************)

\* the frames that have been published so far
Published == {n \in Contents : n <= nCaptures /\ heap[n] # Blank}

\* C1: whatever the interleaving of publishes and get_current_frame calls, a
\* call returns None or the complete content of exactly one published frame;
\* the copy under construction never mixes two publishes either
C1_AtomicRead ==
    \A r \in Readers :
        /\ rret[r] = Blank \/ \E n \in Published : rret[r] = FullFrame(n)
        /\ \A i, j \in Cells : (rbuf[r][i] # 0 /\ rbuf[r][j] # 0) => rbuf[r][i] = rbuf[r][j]

\* a reader is in the middle of its copy while a capture thread waits for the
\* lock with a newer frame, and another call has already returned a frame
C1_Witness ==
    \E r, r2 \in Readers, t \in CapThreads :
        /\ rpc[r] = "copy" /\ rbuf[r] # Blank
        /\ cpc[t] = "acquire" /\ cframe[t] # rref[r]
        /\ rret[r2] # Blank

\* C9: while the running flag is set the capture loop is left by no failure:
\* it ends only at a loop test that finds the flag cleared, a failed attempt
\* leaves the held frame as it was and is followed by a back-off and a new
\* loop test, and a successful capture goes on to be published
C9_FailuresNeverFatal ==
    [][\A t \in CapThreads :
         /\ (cpc[t] # "done" /\ cpc'[t] = "done") => (cpc[t] = "check" /\ ~ip_running)
         /\ (cpc[t] = "capture" /\ cpc'[t] # "capture" /\ cframe'[t] = NoFrame) =>
               (cpc'[t] = "backoff" /\ current_frame' = current_frame /\ heap' = heap)
         /\ (cpc[t] = "backoff" /\ cpc'[t] # "backoff") => cpc'[t] = "check"
         /\ (cpc[t] = "capture" /\ cpc'[t] # "capture" /\ cframe'[t] # NoFrame) =>
               cpc'[t] = "acquire"
         /\ (cpc[t] = "store" /\ cpc'[t] # "store") =>
               (current_frame' = cframe[t] /\ heap'[cframe[t]] = FullFrame(cframe[t]))
      ]_vars

\* after MaxFails consecutive failures the loop is still running and still
\* holds the frame published before them
C9_Witness ==
    \E t \in CapThreads :
        /\ fails[t] = MaxFails
        /\ cpc[t] = "capture"
        /\ ip_running
        /\ current_frame # NoFrame

\* C10: when the probe capture of start() fails, the processor is left not
\* initialized, not running and without a capture thread, and the application
\* goes on to start the inference worker, the server and the periodic thread
C10_ProbeFailure ==
    (probe_result = "none") =>
        /\ ~initialized
        /\ ~ip_running
        /\ capture_thread = NoThread
        /\ \A t \in CapThreads : cpc[t] = "unborn"
        /\ app_pc \in {"inference_worker", "server", "periodic", "serving"}
        /\ app_pc \in {"server", "periodic", "serving"} =>
              (iw_running /\ worker_thread # NoThread /\ mpc[worker_thread] # "unborn")
        /\ app_pc \in {"periodic", "serving"} => server
        /\ app_pc = "serving" => periodic_capture_thread

\* the probe failed and the application is serving with its worker at work
C10_Witness ==
    /\ probe_result = "none"
    /\ app_pc = "serving"
    /\ server
    /\ periodic_capture_thread
    /\ \E m \in MonThreads : mpc[m] = "call"

\* the names of a sequence
Range(q) == {q[i] : i \in 1..Len(q)}

\* thread m enters _process_image for filename f in this step
ProcessInvoked(m, f) ==
    /\ mpc[m] = "iter"
    /\ mpc'[m] \in {"call", "claim"}
    /\ cur'[m] = f

\* thread m has finished the iteration of the `for` loop for its current file
Handled(m) == mpc[m] \in {"iter", "sleep", "check", "list", "done"} /\ cur[m] # NoFile

\* C2 (as claimed): every image file in input when the loop starts is, with
\* the loop kept running and no rename failing, eventually out of input and
\* in exactly one of processed and failed
C2_Claim ==
    \A f \in ImageFiles :
        (f \in input_dir) ~>
            (f \notin input_dir /\ ((f \in processed_dir) # (f \in failed_dir)))

\* C3 (as claimed): a file whose processing failed is not retried: no thread
\* enters _process_image for the filename of the PROCESSING_FAILED record that
\* was written last
C3_Claim ==
    [][\A m \in MonThreads, f \in ImageFiles :
         ProcessInvoked(m, f) =>
             ~(error_logs.image_filename = f /\ error_logs.error_type = "PROCESSING_FAILED")
      ]_vars

\* C4: a file for which some prompt failed is never on the path that claims,
\* saves and moves to processed: that path is entered only with an entry for
\* every configured extraction type, a failing prompt adds no entry and sends
\* the file to the error log and then to the failed directory, and no save
\* is made for it in that handling
C4_AllOrNothing ==
    /\ [](\A m \in MonThreads :
            /\ mpc[m] \in {"claim", "save", "logdb", "move_processed"} =>
                  extractions[m] = PromptTypes
            /\ extractions[m] # PromptTypes =>
                  (saved[m] = "no" /\ moved[m] \in {"no", "failed", "rename_failed"})
            /\ mpc[m] \in {"logfail", "move_failed"} =>
                  (extractions[m] # PromptTypes /\ saved[m] = "no"))
    /\ [][\A m \in MonThreads :
            /\ (mpc[m] = "call" /\ cause'[m] # "none") =>
                  (mpc'[m] = "logfail" /\ extractions'[m] = extractions[m]
                   /\ save_called' = save_called)
            /\ (mpc[m] = "move_failed" /\ mpc'[m] # "move_failed") =>
                  (processed_dir' = processed_dir
                   /\ (moved'[m] = "failed" => (cur[m] \in failed_dir' /\ cur[m] \notin input_dir')))
       ]_vars

\* the second prompt failed after the first had succeeded; with a handler
\* configured nothing was saved for the file, which is now in failed
C4_Witness ==
    \E m \in MonThreads :
        /\ database_handler
        /\ extractions[m] = {Prompts[1]}
        /\ moved[m] = "failed"
        /\ cur[m] \in failed_dir
        /\ cur[m] \notin save_called

\* C5 (as claimed): after a save that raised, the file is claimed, a
\* DATABASE_ERROR record has been written for it (unless the write itself
\* failed) and the file has left input for failed (unless the rename failed)
C5_Claim ==
    \A m \in MonThreads :
        (Handled(m) /\ saved[m] = "raised") =>
            /\ cur[m] \in processed_files
            /\ logged[m] \in {"DATABASE_ERROR", "write_failed"}
            /\ \/ moved[m] = "rename_failed"
               \/ (cur[m] \notin input_dir /\ cur[m] \in failed_dir)

\* C6 (as claimed): a file whose prompts all succeeded and that was moved to
\* processed has had exactly one save, which carried every extraction type
C6_Claim ==
    \A m \in MonThreads :
        (Handled(m) /\ extractions[m] = PromptTypes /\ moved[m] = "processed") =>
            /\ saved[m] = "stored"
            /\ cur[m] \in save_called
            /\ cur[m] \in processed_dir

\* C7 (as claimed): two error records written for different kinds of failure
\* carry different error_type values
C7_Claim ==
    [][(error_logs # NoRecord /\ error_logs'.why # error_logs.why) =>
           error_logs'.error_type # error_logs.error_type]_vars

\* C8: the monitor loop ends only at a loop test that finds the running flag
\* cleared; an exception of a sweep leads to the back-off and from there to
\* the next loop test; the files of the interrupted sweep that were not yet
\* handled are still in input and unclaimed, and every listing returns all
\* image files of input, so a later sweep visits them
C8_LoopSurvivesExceptions ==
    /\ [](\A m \in MonThreads :
            mpc[m] = "backoff" =>
                \A f \in Range(listing[m]) :
                    f \notin invoked => (f \in input_dir /\ f \notin processed_files))
    /\ [][\A m \in MonThreads :
            /\ (mpc[m] # "done" /\ mpc'[m] = "done") => (mpc[m] = "check" /\ ~iw_running)
            /\ (mpc[m] = "backoff" /\ mpc'[m] # "backoff") => mpc'[m] = "check"
            /\ (mpc[m] = "list" /\ mpc'[m] = "iter") =>
                  Range(listing'[m]) = {f \in input_dir : IsImage(f)}
       ]_vars

\* an exception interrupted the sweep while a file was being processed and
\* another file of the listing had not been visited; the flag is still set
C8_Witness ==
    \E m \in MonThreads :
        /\ mpc[m] = "backoff"
        /\ iw_running
        /\ cur[m] # NoFile
        /\ \E f \in Range(listing[m]) : f \notin invoked

\* the directories among input, processed and failed that hold the name f
Holding(f) ==
    (IF f \in input_dir THEN {"input"} ELSE {})
    \cup (IF f \in processed_dir THEN {"processed"} ELSE {})
    \cup (IF f \in failed_dir THEN {"failed"} ELSE {})

\* C11 (as claimed): over any sequence of sweeps and of producers dropping
\* files, names re-used included, no image filename is in both processed and
\* failed, and a filename that exists is in exactly one of input, processed
\* and failed
C11_Claim ==
    \A f \in ImageFiles :
        /\ ~(f \in processed_dir /\ f \in failed_dir)
        /\ Cardinality(Holding(f)) <= 1


\* C12: a file is moved to failed only by the handling that has called
\* _log_error for it first: the move to failed is reached with the record
\* written (or its write attempted and failed), the file that enters failed
\* is the file of that record, and after a save that raised the record is
\* attempted while the file is still in input
C12_RecordBeforeMove ==
    /\ [](\A m \in MonThreads :
            mpc[m] = "move_failed" =>
                /\ logged[m] \in {"PROCESSING_FAILED", "write_failed"}
                /\ logged[m] = "PROCESSING_FAILED" => error_logs.image_filename = cur[m])
    /\ [][\A f \in ImageFiles :
            (f \notin failed_dir /\ f \in failed_dir') =>
                \E m \in MonThreads :
                    /\ cur[m] = f
                    /\ mpc[m] = "move_failed"
                    /\ logged[m] # "no"
                    /\ f \in input_dir
       ]_vars
    /\ [][\A m \in MonThreads :
            (mpc[m] = "logdb" /\ mpc'[m] # "logdb") =>
                (logged'[m] \in {"DATABASE_ERROR", "write_failed"} /\ dirVars' = dirVars)
       ]_vars

\* a file is in failed with its record written, and another file is in failed
\* although the write of its record failed
C12_Witness ==
    \E m \in MonThreads :
        /\ moved[m] = "failed"
        /\ cur[m] \in failed_dir
        /\ logged[m] = "write_failed"
        /\ error_logs.error_type = "PROCESSING_FAILED"
        /\ error_logs.image_filename \in failed_dir \ {cur[m]}


\* the periodic loop writes a file into the input directory in this step
PeriodicWrote == \E f \in PeriodicFiles : f \notin input_dir /\ f \in input_dir'

\* C13 (as claimed): whenever the periodic capture loop writes a file to the
\* input directory, periodic_enabled is set; while it is cleared no tick
\* writes
C13_Claim == [][PeriodicWrote => periodic_enabled]_vars


\* C14: with capture.mode 'manual', missing, or any value other than
\* 'periodic' and 'both', the periodic thread goes from its start straight to
\* its end: it never reaches the loop, never enters capture_single_frame,
\* and no periodic file is in input
C14_ManualNoTick ==
    (ModeOf(capture_mode) \notin {"periodic", "both"}) =>
        /\ ppc \in {"unborn", "done"}
        /\ rpc[PeriodicThread] = "parked"
        /\ success = "-"
        /\ output_path = NoFile
        /\ input_dir \cap PeriodicFiles = {}

\* the mode is missing, a frame is there to be captured, and the periodic
\* thread has ended
C14_Witness ==
    /\ capture_mode = "missing"
    /\ app_pc = "serving"
    /\ current_frame # NoFrame
    /\ ppc = "done"

\* C15: a tick changes the input directory in one step only, the write of
\* capture_single_frame, which adds the one file of the tick; a tick whose
\* capture fails leaves the directory as it was; the loop ends only at a loop
\* test that finds the running flag cleared; after its tick the loop sleeps
\* and comes back to the loop test, which starts a further tick while the
\* flag is set
C15_FailedTickSkipped ==
    [][/\ (input_dir' # input_dir) =>
             /\ ppc = "capture" /\ ppc' = "sleep"
             /\ success' = "ok"
             /\ input_dir' = input_dir \cup {output_path}
       /\ (ppc = "capture" /\ ppc' # "capture") =>
             /\ ppc' = "sleep"
             /\ success' # "ok" => input_dir' = input_dir
       /\ (ppc \in {"check", "tick", "capture", "sleep", "backoff"} /\ ppc' = "done") =>
             (ppc = "check" /\ ~app_running)
       /\ (ppc = "sleep" /\ ppc' # "sleep") => ppc' \in {"check", "backoff"}
       /\ (ppc = "backoff" /\ ppc' # "backoff") => ppc' = "check"
       /\ (ppc = "check" /\ ppc' # "check" /\ app_running) => ppc' = "tick"
       /\ (ppc = "tick" /\ ppc' # "tick") => (ppc' = "capture" /\ input_dir' = input_dir)
      ]_vars

\* the first tick failed on its write and wrote nothing; the loop is in its
\* second tick
C15_Witness ==
    /\ now = 2
    /\ ppc = "tick"
    /\ success \in {"write_failed", "exception"}
    /\ input_dir \cap PeriodicFiles = {}


\* shutdown has called ImageProcessor.stop
StopCalled == app_pc \in {"join_periodic", "stopped"}

\* C16: once stop has cleared the running flag the flag stays cleared, a
\* capture attempt begins only at a loop test that finds the flag set, so
\* none begins after the stop, and the loop thread, kept scheduled, finishes
\* the attempt it is in and ends
C16_StopEndsLoop ==
    /\ [](StopCalled => ~ip_running)
    /\ [][\A t \in CapThreads :
            /\ (cpc[t] # "capture" /\ cpc'[t] = "capture") => (cpc[t] = "check" /\ ip_running)
            /\ (cpc[t] = "check" /\ cpc'[t] # "check" /\ ~ip_running) => cpc'[t] = "done"
       ]_vars
    /\ \A t \in CapThreads : (StopCalled /\ cpc[t] # "unborn") ~> (cpc[t] = "done")

\* stop came during a capture attempt whose frame the loop is now publishing
C16_Witness ==
    \E t \in CapThreads :
        /\ StopCalled
        /\ cpc[t] = "store"
        /\ cframe[t] = MaxCaptures


\* the periodic thread is inside its `while` loop
PeriodicLooping == ppc \in {"check", "tick", "capture", "sleep", "backoff"}

\* C17 (as claimed): once shutdown has stopped the worker and the image
\* processor, the running flag of each of the three loops is cleared: that of
\* the monitor loop, that of the capture loop and, for a periodic capture
\* loop that is looping, the flag its loop test reads
C17_Claim ==
    StopCalled => (~iw_running /\ ~ip_running /\ (PeriodicLooping => ~app_running))


\* C18 (as claimed): no thread holds a frame lock while it runs the capture
\* subprocess, writes a file, encodes an image, writes an HTTP response or
\* calls the inference backend
C18_Claim ==
    /\ \A t \in CapThreads : cpc[t] = "capture" => lock # t
    /\ (ppc = "capture" /\ rpc[PeriodicThread] = "returned") => lock # PeriodicThread
    /\ lock \notin MonThreads
    /\ ocpc = "capture" => frame_lock # OldCapThread
    /\ \A v \in Viewers : vpc[v] \in {"encode", "yield"} => frame_lock # v


\* some monitor thread is inside an inference call
InferenceCallOpen == \E m \in MonThreads : mpc[m] = "call"

\* C19: the monitor thread never holds the frame lock and none of its steps
\* changes the state of the image processor, of a get_current_frame call or
\* of the periodic loop; while an inference call stays open, a capture loop
\* that has a frame to publish publishes it, and a tick that has entered
\* capture_single_frame completes and the loop reaches its next loop test
C19_StallBlocksNobody ==
    /\ [](lock \notin MonThreads)
    /\ [][(mpc' # mpc) =>
             (ipVars' = ipVars /\ readerVars' = readerVars /\ perVars' = perVars)]_vars
    /\ \A t \in CapThreads :
          (InferenceCallOpen /\ cpc[t] = "acquire") ~>
              (InferenceCallOpen /\ cpc[t] = "sleep" /\ current_frame # NoFrame)
    /\ (InferenceCallOpen /\ ppc = "capture") ~> (InferenceCallOpen /\ ppc = "sleep")
    /\ (InferenceCallOpen /\ ppc = "sleep") ~> (InferenceCallOpen /\ ppc # "sleep")

\* the call for the file of the first tick is still open; meanwhile the
\* capture loop has published its last frame and the second tick has
\* written its file
C19_Witness ==
    \E m \in MonThreads :
        /\ mpc[m] = "call"
        /\ cur[m] = PeriodicNames[1]
        /\ PeriodicNames[2] \in input_dir
        /\ current_frame = MaxCaptures


\* the frame published last by the capture loop of the application
LastPublished == CHOOSE n \in Published : \A k \in Published : k <= n

\* C20: a get_current_frame call holds the lock from its read to its return,
\* so it waits for no capture; it returns None exactly when nothing has been
\* published, and else the whole frame that was published last;
\* capture_single_frame returns False exactly when that call returned None
\* or the write failed, and exactly then it writes no file; when it returns
\* True the file of the tick is in input
C20_CurrentFrame ==
    /\ [](\A r \in FrameCallers : rpc[r] \in {"read", "copy", "release"} => lock = r)
    /\ [][\A r \in FrameCallers :
            (rpc[r] = "release" /\ rpc'[r] # "release") =>
                /\ (rret'[r] = Blank) <=> (Published = {})
                /\ Published # {} => rret'[r] = FullFrame(LastPublished)
       ]_vars
    /\ [][(ppc = "capture" /\ ppc' = "sleep") =>
            /\ (success' # "ok") <=>
                   (rret[PeriodicThread] = Blank \/ success' \in {"write_failed", "exception"})
            /\ (success' = "no_frame") <=> (rret[PeriodicThread] = Blank)
            /\ (success' # "ok") <=> (input_dir' = input_dir)
            /\ (success' = "ok") => (output_path \in input_dir')
       ]_vars

\* the second tick wrote the first frame although the capture loop had a
\* newer one in hand; the first tick had written nothing
C20_Witness ==
    /\ ppc = "sleep"
    /\ success = "ok"
    /\ now = 2
    /\ rret[PeriodicThread] = FullFrame(1)
    /\ nCaptures = 2
    /\ input_dir \cap PeriodicFiles = {PeriodicNames[2]}


\* C21: a frame value returned by get_current_frame is unchanged by every
\* step of a capture loop (so by every later publish), and the held frame is
\* changed by nothing but a capture loop's publish, whatever a caller writes
\* into the value it received.
C21_CopyInCopyOut ==
    [][/\ (cpc' # cpc) =>
            \A r \in Readers : (rpc[r] = "idle" /\ rpc'[r] = "idle") => View(r)' = View(r)
       /\ (cpc' = cpc) =>
            /\ current_frame' = current_frame
            /\ current_frame # NoFrame => heap'[current_frame] = heap[current_frame]]_vars

\* a caller wrote into the frame of the first capture while a later publish
\* replaced the held frame, and both buffers kept their content
C21_Witness ==
    /\ \E i \in Cells : rret["r1"][i] = Ink
    /\ \E i \in Cells : rret["r1"][i] = 1
    /\ current_frame = 2
    /\ heap[2] = FullFrame(2)
    /\ heap[1] = FullFrame(1)

\* C22: over every sequence of start and stop calls at most one capture-loop
\* thread is alive at any time.
C22_Claim == Cardinality(AliveCapThreads) <= 1

\* the failures of a backend call the dispatcher is to tell apart
FailureKinds == {"timeout", "request_error", "malformed_reply", "empty_response"}

\* C23: two calls of _call_llm that failed for different reasons (timeout,
\* request error, malformed reply, empty response) return different results.
C23_Claim ==
    \A i, j \in 1..Len(call_log) :
        (/\ call_log[i].event \in FailureKinds
         /\ call_log[j].event \in FailureKinds
         /\ call_log[i].event # call_log[j].event)
        => call_log[i].result # call_log[j].result

\* the same JSON value spelled as the JSON document alone
Clean(text) == [form |-> "clean", value |-> text.value]

\* C24: a response that is valid JSON inside a fenced code block, or valid
\* JSON but for a comma before a closing brace or bracket, is accepted with
\* the same parsed value whenever the clean JSON document is accepted.
C24_Claim ==
    (/\ prompt_result.outcome # "-"
     /\ prompt_input.response_text.form \in {"fenced", "trailing_comma"}
     /\ ProcessResponse(prompt_input.extraction_type,
                        Clean(prompt_input.response_text)).outcome = "ok")
    => (/\ prompt_result.outcome = "ok"
        /\ prompt_result.data = prompt_input.response_text.value)

\* position of key k in the list q (0 when absent)
IndexOf(q, k) == IF \E i \in 1..Len(q) : q[i] = k
                 THEN CHOOSE i \in 1..Len(q) : q[i] = k
                 ELSE 0

\* C25: validate_json_structure succeeds exactly when data is a mapping that
\* holds every required key; when data is a mapping and a key is missing, the
\* message lists the required keys absent from data, each of them once and in
\* the order of the required-key list.
C25_Validate ==
    validate_result # NotReturned =>
        LET data == validate_input.data
            required_keys == validate_input.required_keys
            listed == validate_result.error_msg.keys
            required == {required_keys[i] : i \in 1..Len(required_keys)}
        IN  /\ validate_result.is_valid = (data.kind = "dict" /\ required \subseteq data.keys)
            /\ (data.kind = "dict" /\ ~validate_result.is_valid) =>
                 /\ validate_result.error_msg.text = "Missing required keys: "
                 /\ {listed[i] : i \in 1..Len(listed)} = required \ data.keys
                 /\ \A i, j \in 1..Len(listed) :
                      i < j => IndexOf(required_keys, listed[i]) < IndexOf(required_keys, listed[j])

\* a call on a mapping that lacks two of three required keys, reported in
\* the order of the list
C25_Witness ==
    /\ validate_input.required_keys = <<"table_type", "lap_number", "timing_table">>
    /\ validate_input.data = [kind |-> "dict", keys |-> {"lap_number"}]
    /\ validate_result.is_valid = FALSE
    /\ validate_result.error_msg.keys = <<"table_type", "timing_table">>

\* C26: a response whose parsed value lacks a required key of its extraction
\* type (lap_number for current_lap, timing_table for timing_table,
\* lap_number and table_type for full_extraction) is not accepted.
C26_Claim ==
    LET extraction_type == prompt_input.extraction_type
        data == prompt_result.data
        Lacks(key) == data.kind # "dict" \/ key \notin data.keys
    IN  (/\ prompt_result.outcome # "-"
         /\ prompt_input.response_text.form = "clean"
         /\ \/ extraction_type = "current_lap" /\ Lacks("lap_number")
            \/ extraction_type = "timing_table" /\ Lacks("timing_table")
            \/ extraction_type = "full_extraction" /\ (Lacks("lap_number") \/ Lacks("table_type")))
        => prompt_result.outcome # "ok"

\* C27: a new worker object starts with an empty claimed set, and a sweep
\* enters _process_image for a listed name exactly when the name is not in
\* the claimed set of the current object, whatever earlier objects had
\* claimed; stop() and start() on one object leave its claimed set as it is.
C27_ClaimedSet ==
    [][/\ (instance' # instance) => processed_files' = {}
       /\ (instance' = instance /\ iw_running' # iw_running)
             => processed_files' = processed_files
       /\ \A m \in MonThreads :
            (instance' = instance /\ mpc[m] = "iter" /\ listing'[m] # listing[m])
               => ((mpc'[m] = "call" /\ cur'[m] \in invoked')
                     <=> Head(listing[m]) \notin processed_files)]_vars

\* the second object is processing a file the first had claimed and left in
\* the input directory
C27_Witness ==
    /\ instance = 2
    /\ \E m \in MonThreads :
         /\ mpc[m] = "call"
         /\ cur[m] \in prev_claimed
         /\ cur[m] \in invoked
         /\ cur[m] \in input_dir

\* C28: every record _log_error wrote is the content of a file of its own:
\* there are as many error-log files as failures handled, and each record is
\* still what one of them holds.
C28_Claim ==
    /\ Cardinality(log_files) = Len(log_history)
    /\ \A i \in 1..Len(log_history) : \E f \in log_files : f.content = log_history[i]

\* C29: within one run of _process_image the prompts are dispatched one after
\* the other in the order of the prompts mapping: the first dispatch is that
\* of the first prompt, a further dispatch follows only a prompt that was
\* accepted and is that of the next prompt, and a prompt whose call, parse or
\* validation failed ends the run.
C29_PromptOrder ==
    [][\A m \in MonThreads :
         /\ (mpc[m] # "call" /\ mpc'[m] = "call")
               => (mpc[m] = "iter" /\ kprompt'[m] = 1 /\ extractions'[m] = {})
         /\ (mpc[m] = "call" /\ mpc'[m] = "call"
                /\ <<kprompt[m], extractions[m], cur[m]>>' # <<kprompt[m], extractions[m], cur[m]>>)
               => /\ kprompt'[m] = kprompt[m] + 1
                  /\ cur'[m] = cur[m]
                  /\ extractions'[m] = {Prompts[i] : i \in 1..kprompt[m]}
         /\ (mpc[m] = "call" /\ mpc'[m] = "logfail")
               => /\ cause'[m] \in DispatchFailures \cup {"json_decode", "validation"}
                  /\ kprompt'[m] = kprompt[m]
         /\ (mpc[m] \in {"logfail", "move_failed"}) => mpc'[m] # "call"]_vars

\* the second prompt of an image failed after the first was accepted, and
\* the third was not dispatched
C29_Witness ==
    \E m \in MonThreads :
        /\ mpc[m] = "move_failed"
        /\ kprompt[m] = 2
        /\ extractions[m] = {Prompts[1]}

\* C30: a sweep enters _process_image only for names with an image suffix
\* that are not in the claimed set, and logs and moves only the file it
\* entered it for; the other files of the input directory stay there, and
\* the files already in processed or failed, error logs included, stay as
\* they are.
C30_Claim ==
    [][/\ \A m \in MonThreads :
            /\ (mpc[m] = "iter" /\ mpc'[m] = "call")
                  => (IsImage(cur'[m]) /\ cur'[m] \notin processed_files)
            /\ (mpc[m] \in {"logfail", "move_failed", "move_processed"})
                  => (IsImage(cur[m]) /\ cur[m] \in invoked)
       /\ \A f \in Files :
            /\ (f \in input_dir /\ f \notin input_dir')
                  => \E m \in MonThreads : cur[m] = f /\ IsImage(f)
            /\ f \in processed_dir => f \in processed_dir'
            /\ f \in failed_dir => f \in failed_dir'
       /\ \A f \in log_files : f \in log_files']_vars

\* C31: every call of _call_llm invokes exactly one backend, _call_together
\* if and only if the configured provider is 'together' and _call_ollama for
\* every other provider value, and no step changes the provider read at
\* construction.
C31_OneBackend ==
    [][/\ llm_provider' = llm_provider
       /\ call_log' # call_log =>
            LET call == call_log'[Len(call_log')]
            IN  /\ Len(call.called) = 1
                /\ call.called[1] = "_call_together" <=> llm_provider = "together"
                /\ call.called[1] = "_call_ollama" <=> llm_provider # "together"]_vars

\* a call under a provider name the code does not know went to Ollama
C31_Witness ==
    /\ llm_provider \notin {"ollama", "together"}
    /\ Len(call_log) > 0
    /\ call_log[1].called = <<"_call_ollama">>

\* the chunks of a stream that have choices and whose first choice has
\* non-empty content, in arrival order
KeptChunks(chunks) ==
    SelectSeq(chunks, LAMBDA c : c.choices # <<>> /\ ~c.choices[1].is_none
                                   /\ c.choices[1].text # <<>>)

\* C32: _call_together returns the contents of the chunks that have choices
\* and non-empty content, joined in arrival order; it returns None exactly
\* when that text is empty or the request or the stream raised; and neither
\* backend method hands an exception to its caller.
C32_Streaming ==
    backend_result.called =>
        /\ ~backend_result.raised
        /\ backend_input.backend = "together" =>
             LET kept == KeptChunks(backend_input.chunks)
                 joined == [i \in 1..Len(kept) |-> kept[i].choices[1].text[1]]
             IN  /\ backend_result.is_none
                       <=> (backend_input.end # "complete" \/ joined = <<>>)
                 /\ ~backend_result.is_none => backend_result.text = joined

\* a stream of a chunk without choices and two chunks of different content
\* was read to its end and its two pieces were returned in arrival order
C32_Witness ==
    /\ backend_result.called
    /\ backend_input.backend = "together"
    /\ \E i \in 1..Len(backend_input.chunks) : backend_input.chunks[i].choices = <<>>
    /\ Len(backend_result.text) = 2
    /\ backend_result.text[1] # backend_result.text[2]

\* C33: with a database handler, a file enters the processed directory only
\* in a handling in which save_extraction_results returned for it without
\* raising, and save_extraction_results is called at most once for a
\* filename in the lifetime of the worker.
C33_Claim ==
    [][/\ \A f \in Files :
             (database_handler /\ f \notin processed_dir /\ f \in processed_dir')
             => \E m \in DOMAIN mpc : cur[m] = f /\ saved[m] = "stored"
                                        /\ f \in save_called
       /\ \A m \in DOMAIN mpc :
             (mpc[m] = "save" /\ mpc'[m] # "save") => cur[m] \notin save_called]_vars

\* the requests to /manual_capture answered with success so far
ManualSuccesses == {i \in 1..Len(manual_log) : manual_log[i].status = "200"}

\* C34: a successful request to /manual_capture puts its file into the input
\* directory the monitor loop drains, and that file is eventually in the
\* processed or the failed directory; a request made while the camera is not
\* initialized writes no file.
C34_Claim ==
    /\ [][manual_log' # manual_log =>
            LET response == manual_log'[Len(manual_log')]
            IN  /\ response.status = "200" => response.filename \in input_dir'
                /\ ~initialized => /\ response.status = "503"
                                   /\ input_dir' = input_dir
                                   /\ manual_dir' = manual_dir]_vars
    /\ \A f \in ManualFiles :
         (\E i \in ManualSuccesses : manual_log[i].filename = f)
            ~> (f \in processed_dir \cup failed_dir)

\* C35: with the running flag cleared by stop, the monitor loop begins no new
\* sweep and ends only at the test that precedes a sweep, while the `for`
\* loop of the sweep in progress goes on: the next name of the listing is
\* taken and, unless it is claimed, handed to _process_image.
C35_StopBetweenSweeps ==
    [][\A m \in DOMAIN mpc :
          /\ (mpc[m] # "list" /\ mpc'[m] = "list") => iw_running
          /\ (mpc[m] # "done" /\ mpc'[m] = "done") => (mpc[m] = "check" /\ ~iw_running)
          /\ (~iw_running /\ mpc[m] = "iter" /\ listing[m] # <<>>
                /\ <<mpc[m], listing[m]>>' # <<mpc[m], listing[m]>>)
             => LET filename == Head(listing[m])
                IN  /\ cur'[m] = filename
                    /\ listing'[m] = Tail(listing[m])
                    /\ filename \notin processed_files
                          => (filename \in invoked' /\ mpc'[m] \in {"call", "claim"})]_vars

\* a name the sweep had still to visit when stop cleared the flag was handed
\* to _process_image afterwards
C35_Witness ==
    /\ ~iw_running
    /\ \E f \in stop_listing : f \in invoked

\* the positions of the monitor loop between the entry into _process_image
\* for a file and the end of that file's handling
Processing == {"call", "logfail", "move_failed", "claim", "save", "logdb", "move_processed"}

\* C36: over every sequence of start and stop calls at most one monitor-loop
\* thread is alive at any time, and no file is being processed by two
\* monitor threads at once.
C36_Claim ==
    /\ Cardinality(AliveMonThreads) <= 1
    /\ \A m, n \in DOMAIN mpc :
          (m # n /\ mpc[m] \in Processing /\ mpc[n] \in Processing) => cur[m] # cur[n]

\* C37: processed_files only grows; a name enters it exactly when
\* _process_image returned a result for it (every prompt was accepted), and
\* then before save_extraction_results is called and before the file is
\* moved in that handling; the handling of a file whose extraction failed
\* adds nothing to it.
C37_ClaimOnSuccess ==
    [][/\ processed_files \subseteq processed_files'
       /\ \A f \in Files :
             (f \notin processed_files /\ f \in processed_files')
             => \E m \in DOMAIN mpc :
                    /\ cur[m] = f
                    /\ mpc[m] = "claim"
                    /\ extractions[m] = PromptTypes
                    /\ cause[m] = "none"
                    /\ saved[m] = "no"
                    /\ moved[m] = "no"
       /\ \A m \in DOMAIN mpc :
             /\ (mpc[m] = "claim" /\ mpc'[m] # "claim") => cur[m] \in processed_files'
             /\ (mpc[m] \in {"logfail", "move_failed"} /\ mpc'[m] # mpc[m])
                => processed_files' = processed_files]_vars

\* one file was claimed and is still in input, its move not yet made, while
\* a file whose extraction failed lies in failed and is not claimed
C37_Witness ==
    /\ \E m \in DOMAIN mpc :
          mpc[m] \in {"save", "move_processed"} /\ cur[m] \in processed_files \cap input_dir
    /\ \E g \in failed_dir : g \notin processed_files

\* C38: a file a periodic tick writes into the input directory is in a
\* listing of the monitor loop, and is handed to _process_image, only once
\* its content is complete.
C38_Claim ==
    [][\A m \in DOMAIN mpc :
          /\ (mpc[m] = "list" /\ mpc'[m] = "iter")
             => \A i \in 1..Len(listing'[m]) : listing'[m][i] \notin partial
          /\ \A f \in invoked' \ invoked : f \notin partial]_vars

\* C39: ImageProcessor.start does not store its probe frame: the step of
\* start leaves current_frame as it was, current_frame leaves None only by
\* the store of a capture loop, and while it is None a get_current_frame
\* call returns None and capture_single_frame returns False and writes no
\* file, also when is_initialized() is already true.
C39_ProbeNotPublished ==
    [][/\ (app_pc = "image_processor" /\ app_pc' # app_pc)
             => current_frame' = current_frame
       /\ (current_frame = NoFrame /\ current_frame' # NoFrame)
             => \E t \in CapThreads : cpc[t] = "store" /\ cpc'[t] = "release"
       /\ \A r \in FrameCallers :
             (rpc[r] = "release" /\ rpc'[r] # "release" /\ rref[r] = NoFrame)
             => rret'[r] = Blank
       /\ (ppc = "capture" /\ ppc' = "sleep" /\ rref[PeriodicThread] = NoFrame)
             => (success' = "no_frame" /\ input_dir' = input_dir)]_vars

\* start succeeded, nothing is published yet, and a tick of the periodic
\* loop has failed for want of a frame
C39_Witness ==
    /\ probe_result = "frame"
    /\ initialized
    /\ current_frame = NoFrame
    /\ ppc = "sleep"
    /\ success = "no_frame"

\* C40: for every extraction type, also one with no required key or absent
\* from the validation map, a response that parses to a JSON value that is
\* no object is not accepted.
C40_Claim ==
    (/\ prompt_result.outcome # "-"
     /\ prompt_input.response_text.form = "clean"
     /\ prompt_input.response_text.value.kind # "dict")
    => prompt_result.outcome \in {"json_decode", "validation"}

====
